---- MODULE Spec2Model ----
(***************************************************************************)
(* Model of the video-generation job API (app/main.py) and of the stage    *)
(* wrappers its pipeline calls.                                            *)
(*                                                                         *)
(* The server is one asyncio event loop.  A coroutine runs without         *)
(* interruption until it awaits real I/O (the generative call, a           *)
(* subprocess); only then may a request handler or another job's task run. *)
(* `running` names the task that owns the loop; "idle" means the loop is   *)
(* free.  A request handler has no await and runs in one step.  Progress   *)
(* is kept in hundredths (0.05 is 5, 1.0 is 100).                          *)
(***************************************************************************)
EXTENDS Integers, Sequences, FiniteSets, TLC

\* ------------------------------------------------------------------ bounds
MaxScenes == 1      \* longest scene list of a generated (non-mock) script
MaxFaults == 1      \* filesystem operations that may fail in one run
MaxLines == 2       \* lines of a scene source text
MaxPaths == 2       \* clips handed to one concat_videos call
MaxBlocks == 2      \* fenced blocks in one generative response

\* --------------------------------------------------------- program constants
MockScenes == 4     \* scenes of generate_mock_script's template

JobIds == {"j1", "j2"}          \* the uuid4 values generate_video may draw
IdOrder == [j \in JobIds |-> IF j = "j1" THEN 1 ELSE 2]   \* order of drawing
Idle == "idle"

VARIABLES
    job_statuses,       \* main.py job_statuses: dict job_id -> status record
    fs,                 \* fs[j]: the paths that exist under JOBS_DIR / j
    pc,                 \* pc[j]: where job j's background task stands
    script,             \* generate_video_task local `script`
    scene_i,            \* generate_video_task loop index `i`
    exc,                \* exception raised inside job j's task, "None" if none
    running,            \* the task that holds the event loop, or Idle
    GEMINI_API_KEY,     \* whether the text-generation credential is set
    ELEVENLABS_API_KEY, \* whether the speech credential is set
    faults,             \* filesystem failures injected so far
    calls,              \* calls[j]: the stage calls job j's task made, in order
    disk,               \* the files a wrapper called on its own works on
    last_call           \* that call: its arguments and what it returned

vars == <<job_statuses, fs, pc, script, scene_i, exc, running, calls,
          GEMINI_API_KEY, ELEVENLABS_API_KEY, faults, disk, last_call>>

\* ------------------------------------------------------------- workspace
\* A path under jobs/<id> is <<name, k>>: k is the 1-based scene number of a
\* per-scene artifact and 0 otherwise.
job_dir == <<"job_dir", 0>>
script_dir == <<"script", 0>>
audio_dir == <<"audio", 0>>
video_dir == <<"video", 0>>
output_dir == <<"output", 0>>
script_path == <<"script/script.json", 0>>
final_path == <<"output/final_video.mp4", 0>>
code_path(i) == <<"script/scene_N.py", i + 1>>
\* Variant: the audio file is named by the 0-based index.
audio_path_zero_based(i) == <<"audio/scene_N.mp3", i>>

audio_path(i) == <<"audio/scene_N.mp3", i + 1>>
video_path(i) == <<"video/scene_N.mp4", i + 1>>
combined_path(i) == <<"output/combined_scene_N.mp4", i + 1>>

SubDirs == <<script_dir, audio_dir, video_dir, output_dir>>

\* Outcome of one filesystem operation block: at most one operation of a try
\* block fails, since the first failure leaves the block.
FsOutcome == {"ok", "makedirs", "write"}
Cost(f) == IF f = "ok" THEN 0 ELSE 1
Allowed(f) == faults + Cost(f) <= MaxFaults

\* os.makedirs(dirname, exist_ok=True): creates the directory and its parents.
makedirs(ws, d, f) == IF f = "makedirs" THEN ws ELSE ws \cup {job_dir, d}

\* The outcomes a try block that starts with makedirs(d) can have in ws: with
\* the directory in place makedirs does nothing and cannot fail.
FsOutcomes(ws, d) == IF d \in ws THEN {"ok", "write"} ELSE FsOutcome

\* open(path, "w") and write: needs the directory; creates the file.
CanWrite(ws, d, f) == d \in ws /\ f = "ok"

\* ---------------------------------------------------------------- records
\* A script as the pipeline holds it: whether it is the mock template, the
\* number of scenes, and the numbers of the scenes that are JSON arrays or
\* strings instead of objects (indexing them with a key raises TypeError).
NoScript == [mock |-> FALSE, scenes |-> 0, arrays |-> {}]
NoUrl == <<>>
VideoUrl(j) == <<"/jobs", j, "output/final_video.mp4">>

\* Variant: the submission is marked as already running.
QueuedRecord_processing(j) ==
    [job_id |-> j, status |-> "processing", progress |-> 5,
     message |-> "Generating script...", script |-> NoScript,
     video_url |-> NoUrl, error |-> "None"]

QueuedRecord(j) ==
    [job_id |-> j, status |-> "queued", progress |-> 0,
     message |-> "Job queued", script |-> NoScript,
     video_url |-> NoUrl, error |-> "None"]

ProcessingRecord(j) ==
    [job_id |-> j, status |-> "processing", progress |-> 5,
     message |-> "Generating script...", script |-> NoScript,
     video_url |-> NoUrl, error |-> "None"]

\* Variant: the last update forgets video_url.
CompletedRecord_nourl(r, j) ==
    [r EXCEPT !.status = "completed", !.progress = 100,
              !.message = "Video generation completed"]

CompletedRecord(r, j) ==
    [r EXCEPT !.status = "completed", !.progress = 100,
              !.message = "Video generation completed",
              !.video_url = VideoUrl(j)]

\* Variant: the failure handler resets the progress.
FailedRecord_reset(r, e) ==
    [r EXCEPT !.status = "failed", !.message = "Video generation failed",
              !.error = e, !.progress = 0]

\* Variant: the failure handler does not store the description.
FailedRecord_noerror(r, e) ==
    [r EXCEPT !.status = "failed", !.message = "Video generation failed"]

FailedRecord(r, e) ==
    [r EXCEPT !.status = "failed", !.message = "Video generation failed",
              !.error = e]

Known(j) == j \in DOMAIN job_statuses

\* job_statuses[j] = rec (dict item assignment: inserts or overwrites)
Put(j, rec) == [k \in DOMAIN job_statuses \cup {j} |->
                   IF k = j THEN rec ELSE job_statuses[k]]

\* del job_statuses[j]
Del(j) == [k \in DOMAIN job_statuses \ {j} |-> job_statuses[k]]

TaskVars == <<pc, script, scene_i, exc, running, calls>>

\* The task of job j calls op with args (the scene index and the paths).
Invoked(j, op, args) ==
    [calls EXCEPT ![j] = Append(@, [op |-> op, args |-> args])]
EnvVars == <<GEMINI_API_KEY, ELEVENLABS_API_KEY>>
UnitVars == <<disk, last_call>>
PipelineVars == <<job_statuses, fs, TaskVars, EnvVars, faults>>

\* ------------------------------------------- a wrapper called on its own
\* The media wrappers and the renderer are also exercised one call at a time,
\* on a small disk: two video clips, one audio file and the output file, all
\* outputs going to one output directory, and the temporary directories that
\* exist under the system's temp directory.  A file is its content.
Absent == "absent"
Out == "out/o.mp4"
Inputs == {"in/a.mp4", "in/b.mp4", "in/a.mp3"}
Videos == {"in/a.mp4", "in/b.mp4"}
UnitPaths == Inputs \cup {Out}

\* A content per input, so that a copy of one is told from a copy of another.
Original(p) ==
    CASE p = "in/a.mp4" -> "clip A"
      [] p = "in/b.mp4" -> "clip B"
      [] p = "in/a.mp3" -> "speech"

InitialDisks ==
    {[files |-> [p \in UnitPaths |->
                    IF p \in present THEN Original(p)
                    ELSE IF p = Out /\ stale THEN "stale" ELSE Absent],
      out_dir |-> dir \/ stale,
      tmp |-> 0] :
        present \in SUBSET Inputs, dir \in BOOLEAN, stale \in BOOLEAN}

NoCall == [op |-> "none"]
NoDisk == [files |-> [p \in UnitPaths |-> Absent], out_dir |-> FALSE, tmp |-> 0]

Exists(d, p) == d.files[p] # Absent

\* os.makedirs(os.path.dirname(output_path), exist_ok=True); mk = "fails"
\* when it raises, which it can only do when the directory is missing.
makedirs_out(d, mk) == IF mk = "ok" THEN [d EXCEPT !.out_dir = TRUE] ELSE d
MkOutcomes(d) == IF d.out_dir THEN {"ok"} ELSE {"ok", "fails"}

\* fallback_copy (video_composer.py 155-179): makedirs, shutil.copy2; any
\* exception (a missing source, a failing copy) is swallowed and "" returned.
fallback_copy_file(d, source, mk, cp) ==
    IF mk = "fails" THEN [ret |-> "", disk |-> d]
    ELSE IF cp = "ok" /\ Exists(d, source)
    THEN [ret |-> Out,
          disk |-> [makedirs_out(d, mk) EXCEPT !.files[Out] = d.files[source]]]
    ELSE [ret |-> "", disk |-> makedirs_out(d, mk)]

\* How a started external program ends, or "exec_fails" when starting it
\* raises (the binary is missing).
ToolOutcome == {"exec_fails", "zero", "nonzero"}

\* combine_audio_video (video_composer.py 16-73).  mk is the makedirs of line
\* 32, whose exception goes to the outer handler (70-73); tool is ffmpeg,
\* which writes the muxed file exactly when it exits with 0; mk2 and cp are
\* the makedirs and the copy2 inside fallback_copy.  tool_run tells whether
\* ffmpeg was started.
combine_audio_video(d, video, audio, mk, tool, mk2, cp) ==
    IF mk = "fails"
    THEN fallback_copy_file(d, video, mk2, cp) @@ [tool_run |-> FALSE]
    ELSE LET d1 == makedirs_out(d, mk) IN
         IF tool = "zero"
         THEN [ret |-> Out, disk |-> [d1 EXCEPT !.files[Out] = "muxed"],
               tool_run |-> TRUE]
         ELSE fallback_copy_file(d1, video, "ok", cp)
                 @@ [tool_run |-> tool = "nonzero"]

\* Variant: the empty list is looked at after the output directory is made.
concat_videos_late_check(d, video_paths, mk, tmp, tool, mk2, cp) ==
    IF mk = "fails" \/ Len(video_paths) = 0
    THEN [ret |-> "", disk |-> makedirs_out(d, mk), tool_run |-> FALSE]
    ELSE fallback_copy_file(makedirs_out(d, mk), video_paths[1], "ok", cp)
            @@ [tool_run |-> FALSE]

\* Variant: the fallback keeps the last clip instead of the first.
concat_videos_keep_last(d, video_paths, mk, tmp, tool, mk2, cp) ==
    LET last == video_paths[Len(video_paths)] IN
    IF Len(video_paths) = 0
    THEN [ret |-> "", disk |-> d, tool_run |-> FALSE]
    ELSE IF mk = "fails"
    THEN fallback_copy_file(d, last, mk2, cp) @@ [tool_run |-> FALSE]
    ELSE IF Len(video_paths) >= 2 /\ tool = "zero" /\ tmp = "ok"
    THEN [ret |-> Out,
          disk |-> [makedirs_out(d, mk) EXCEPT !.files[Out] = "concatenated"],
          tool_run |-> TRUE]
    ELSE fallback_copy_file(makedirs_out(d, mk), last, "ok", cp)
            @@ [tool_run |-> tool = "nonzero"]

\* concat_videos (video_composer.py 75-153).  The empty list returns "" before
\* anything is touched (89-91); mk is the makedirs of line 94 (its exception
\* goes to the outer handler, 148-153); one path is copied (97-98); tmp is
\* mkdtemp and the writing of the list file (103-108), after which the
\* temporary directory is removed only when ffmpeg was awaited (129-131).
concat_videos(d, video_paths, mk, tmp, tool, mk2, cp) ==
    IF Len(video_paths) = 0
    THEN [ret |-> "", disk |-> d, tool_run |-> FALSE]
    ELSE IF mk = "fails"
    THEN fallback_copy_file(d, video_paths[1], mk2, cp) @@ [tool_run |-> FALSE]
    ELSE LET d1 == makedirs_out(d, mk)
             left == [d1 EXCEPT !.tmp = @ + 1]
         IN
         IF Len(video_paths) = 1
         THEN fallback_copy_file(d1, video_paths[1], "ok", cp)
                 @@ [tool_run |-> FALSE]
         ELSE IF tmp = "mkdtemp_fails"
         THEN fallback_copy_file(d1, video_paths[1], "ok", cp)
                 @@ [tool_run |-> FALSE]
         ELSE IF tmp = "write_fails" \/ tool = "exec_fails"
         THEN fallback_copy_file(left, video_paths[1], "ok", cp)
                 @@ [tool_run |-> FALSE]
         ELSE IF tool = "zero"
         THEN [ret |-> Out, disk |-> [d1 EXCEPT !.files[Out] = "concatenated"],
               tool_run |-> TRUE]
         ELSE fallback_copy_file(d1, video_paths[1], "ok", cp)
                 @@ [tool_run |-> TRUE]

\* Scene source text, line by line.  A line is a class statement with its
\* class name and its base, or anything else.
CodeLines ==
    {[kind |-> "text", name |-> "", base |-> ""],
     [kind |-> "class", name |-> "Scene1", base |-> "Scene"],
     [kind |-> "class", name |-> "Helper", base |-> "VGroup"]}

Codes == UNION {[1..n -> CodeLines] : n \in 0..MaxLines}

\* re.search(r'class\s+(\w+)\s*\(\s*Scene\s*\)', code): the first class
\* statement whose base is Scene
IsSceneClass(line) == line.kind = "class" /\ line.base = "Scene"

\* extract_class_name (manim_renderer.py 130-144); "None" for None
extract_class_name(code) ==
    IF \E n \in 1..Len(code) : IsSceneClass(code[n])
    THEN code[CHOOSE n \in 1..Len(code) :
                 /\ IsSceneClass(code[n])
                 /\ \A m \in 1..(n - 1) : ~IsSceneClass(code[m])].name
    ELSE "None"

\* Variant: a failure to produce the placeholder is passed on as "".
generate_mock_video_strict(d, mk, tool, w) ==
    IF mk = "fails" THEN [ret |-> "", disk |-> d]
    ELSE IF tool = "zero"
    THEN [ret |-> Out, disk |-> [makedirs_out(d, mk) EXCEPT
                                    !.files[Out] = "black clip"]]
    ELSE IF w = "ok"
    THEN [ret |-> Out, disk |-> [makedirs_out(d, mk) EXCEPT
                                    !.files[Out] = "stub"]]
    ELSE [ret |-> "", disk |-> makedirs_out(d, mk)]

\* generate_mock_video (manim_renderer.py 146-195): ffmpeg writes a black
\* clip when it exits with 0; otherwise the 24 stub bytes are written (w);
\* every exception is swallowed and output_path is returned.
generate_mock_video(d, mk, tool, w) ==
    IF mk = "fails" THEN [ret |-> Out, disk |-> d]
    ELSE IF tool = "zero"
    THEN [ret |-> Out, disk |-> [makedirs_out(d, mk) EXCEPT
                                    !.files[Out] = "black clip"]]
    ELSE IF w = "ok"
    THEN [ret |-> Out, disk |-> [makedirs_out(d, mk) EXCEPT
                                    !.files[Out] = "stub"]]
    ELSE [ret |-> Out, disk |-> makedirs_out(d, mk)]

Placeholders == {"black clip", "stub"}

\* Whether the name shutil is bound when line 109 reads it.  The module does
\* not import shutil, and `import shutil` at line 121 makes it a local name
\* of render_scene, assigned only in the finally clause: the read raises
\* UnboundLocalError.
ShutilBoundAtCopy == FALSE

\* How the manim subprocess ends: it cannot be started, exits non-zero, exits
\* 0 without an .mp4 under the media directory, or exits 0 with one.
ProcOutcome == {"exec_fails", "nonzero", "no_artifact", "artifact"}

\* The outcomes generate_mock_video can have on d.
MockOutcomes(d) ==
    {m \in [mk : {"ok", "fails"}, tool : ToolOutcome, w : {"ok", "fails"}] :
        /\ m.mk \in MkOutcomes(d)
        /\ m.mk = "fails" => m.tool = "exec_fails" /\ m.w = "ok"
        /\ m.tool = "zero" => m.w = "ok"}

\* The quality strings a request may carry: the three tiers and others.
Qualities == {"low", "medium", "high", "LOW", "ultra", ""}

\* Variant: an unrecognized tier is rendered in low quality.
quality_flag_low_default(quality) ==
    IF quality = "medium" THEN "-qm"
    ELSE IF quality = "high" THEN "-qh"
    ELSE "-ql"

\* manim_renderer.py 56-60: the flag put on manim's command line (72)
quality_flag(quality) ==
    IF quality = "low" THEN "-ql"
    ELSE IF quality = "high" THEN "-qh"
    ELSE "-qm"

\* render_scene (manim_renderer.py 18-128).  manim: whether the package can
\* be imported; tw: writing the temporary source file; mk: the makedirs of
\* line 63; proc: the subprocess; m: the outcomes inside generate_mock_video.
\* The temporary directory made at line 42 is removed by the finally clause
\* of the inner try statement (118-124) only, which the returns and
\* exceptions of lines 49, 52-53 and 63 do not pass.
render_scene(d, code, manim, tw, mk, proc, m) ==
    LET made == [d EXCEPT !.tmp = @ + 1]
        mock(dd, run) ==
            [ret |-> generate_mock_video(dd, m.mk, m.tool, m.w).ret,
             disk |-> generate_mock_video(dd, m.mk, m.tool, m.w).disk,
             engine_run |-> run]
        removed(r) == [r EXCEPT !.disk.tmp = @ - 1]
    IN
    IF manim = "missing" THEN mock(d, FALSE)
    ELSE IF extract_class_name(code) = "None" THEN mock(made, FALSE)
    ELSE IF tw = "fails" \/ mk = "fails" THEN mock(made, FALSE)
    ELSE IF proc = "artifact" /\ ShutilBoundAtCopy
    THEN removed([ret |-> Out,
                  disk |-> [makedirs_out(made, mk) EXCEPT
                               !.files[Out] = "rendered"],
                  engine_run |-> TRUE])
    ELSE removed(mock(makedirs_out(made, mk), proc # "exec_fails"))


\* Variant: a placeholder that cannot be written is reported as "".
generate_mock_audio_file_strict(d, mk, w) ==
    IF mk = "fails" THEN [ret |-> "", disk |-> d]
    ELSE IF w = "ok"
    THEN [ret |-> Out, disk |-> [makedirs_out(d, mk) EXCEPT
                                    !.files[Out] = "mock audio"]]
    ELSE [ret |-> "", disk |-> makedirs_out(d, mk)]

\* generate_mock_audio (elevenlabs_tts.py 79-102) with Out as output_path:
\* makedirs, then the 16 fixed bytes are written; every exception is
\* swallowed and output_path is returned.
generate_mock_audio_file(d, mk, w) ==
    IF mk = "fails" THEN [ret |-> Out, disk |-> d]
    ELSE IF w = "ok"
    THEN [ret |-> Out, disk |-> [makedirs_out(d, mk) EXCEPT
                                    !.files[Out] = "mock audio"]]
    ELSE [ret |-> Out, disk |-> makedirs_out(d, mk)]

\* What requests.post gives: an exception, status 200, or another status.
PostOutcome == {"raise", "200", "other"}

\* The outcomes generate_mock_audio can have on d.
MockAudioOutcomes(d) ==
    {m \in [mk : {"ok", "fails"}, w : {"ok", "fails"}] :
        /\ m.mk \in MkOutcomes(d)
        /\ m.mk = "fails" => m.w = "ok"}

\* generate_speech (elevenlabs_tts.py 18-77) with Out as output_path.  key:
\* ELEVENLABS_API_KEY is set; text: "str", or "other" for a narration that is
\* not a string, of which text[:50] (line 31) raises TypeError inside the try
\* statement; resp: the post of line 57; mk, w: the makedirs and the write of
\* lines 61-65; m: the outcomes inside generate_mock_audio.  posted tells
\* whether the request was sent.
generate_speech(d, key, text, resp, mk, w, m) ==
    LET mock(dd, sent) ==
            generate_mock_audio_file(dd, m.mk, m.w) @@ [posted |-> sent]
    IN
    IF text # "str" THEN mock(d, FALSE)
    ELSE IF ~key THEN mock(d, FALSE)
    ELSE IF resp # "200" THEN mock(d, TRUE)
    ELSE IF mk = "fails" THEN mock(d, TRUE)
    ELSE IF w = "fails" THEN mock(makedirs_out(d, mk), TRUE)
    ELSE [ret |-> Out,
          disk |-> [makedirs_out(d, mk) EXCEPT !.files[Out] = "response body"],
          posted |-> TRUE]


\* --------------------------------- post-processing of a generated program
\* f"Scene{n}", for the scene numbers that occur
SceneName(n) ==
    CASE n = 1 -> "Scene1"
      [] n = 2 -> "Scene2"
      [] n = 3 -> "Scene3"
      [] n = 4 -> "Scene4"
      [] OTHER -> "Scene5"

\* The class names a generated program may use.
ClassNames == {"Intro", "Scene1", "Scene2", "Scene1Scene2"}

\* f"Scene{n}" in name (manim_code_generator.py 107): a substring test
Embeds(name, n) ==
    \/ name = SceneName(n)
    \/ name = "Scene1Scene2" /\ n \in {1, 2}

\* The lines of a generated program: other text, a helper class, and a class
\* statement with base Scene, written either exactly as `class X(Scene)` or
\* with other spacing (two blanks after `class`, blanks around the
\* parentheses), which Python and both regular expressions accept.
GeneratedLines ==
    {[kind |-> "text", name |-> "", base |-> "", spaced |-> FALSE],
     [kind |-> "class", name |-> "Helper", base |-> "VGroup", spaced |-> FALSE]}
        \cup [kind : {"class"}, name : ClassNames, base : {"Scene"},
              spaced : BOOLEAN]

GeneratedCodes == UNION {[1..n -> GeneratedLines] : n \in 0..MaxLines}

\* The scene indexes a post-processing call is made for.
Indexes == 0..MaxScenes

\* manim_code_generator.py 114-123: the fixed program put in place of a text
\* without a class statement
FallbackProgram(index) ==
    <<[kind |-> "text", name |-> "from manim import *", base |-> "",
       spaced |-> FALSE],
      [kind |-> "class", name |-> SceneName(index + 1), base |-> "Scene",
       spaced |-> FALSE],
      [kind |-> "text", name |-> "Fallback implementation", base |-> "",
       spaced |-> FALSE]>>

\* code.replace(f"class {current}(Scene)", f"class {desired}(Scene)")
\* (manim_code_generator.py 108-111): every occurrence of that exact text
Replace(code, current, desired) ==
    [n \in 1..Len(code) |->
        IF /\ code[n].kind = "class" /\ code[n].base = "Scene"
           /\ code[n].name = current /\ ~code[n].spaced
        THEN [code[n] EXCEPT !.name = desired]
        ELSE code[n]]

\* Variant: a text without a class statement is returned as it is.
ensure_proper_class_name_no_fallback(code, index) ==
    LET current_class_name == extract_class_name(code)
        desired_class_name == SceneName(index + 1)
    IN
    IF current_class_name # "None" /\ ~Embeds(current_class_name, index + 1)
    THEN Replace(code, current_class_name, desired_class_name)
    ELSE code

\* ensure_proper_class_name (manim_code_generator.py 88-125)
ensure_proper_class_name(code, index) ==
    LET current_class_name == extract_class_name(code)
        desired_class_name == SceneName(index + 1)
    IN
    IF current_class_name # "None"
    THEN IF ~Embeds(current_class_name, index + 1)
         THEN Replace(code, current_class_name, desired_class_name)
         ELSE code
    ELSE FallbackProgram(index)

\* The class names the renderer can find in the post-processed program of
\* scene index k, over all generated programs.
ResultNames ==
    [k \in Indexes |->
        {extract_class_name(ensure_proper_class_name(c, k)) :
            c \in GeneratedCodes}]


\* ------------------------------------------ payload of a generative response
\* A response text is prose with fenced blocks, each on lines of its own and
\* followed by a line break when something follows; it is given by the labels
\* of its blocks in order: "lang" for the label the wrapper looks for (json,
\* python), "none" for a fence without label, "other" for any other label.
BlockLabels == {"lang", "none", "other"}
ResponseTexts == UNION {[1..n -> BlockLabels] : n \in 0..MaxBlocks}

RawText == [kind |-> "raw", n |-> 0]
BlockContent(n) == [kind |-> "block", n |-> n]
\* the text from the closing fence of block n to the opening fence of the next
TextAfter(n) == [kind |-> "between", n |-> n]

\* The index of the first block with the wrapper's label, 0 without one.
FirstLabeled(blocks) ==
    IF \E n \in 1..Len(blocks) : blocks[n] = "lang"
    THEN CHOOSE n \in 1..Len(blocks) :
            /\ blocks[n] = "lang"
            /\ \A m \in 1..(n - 1) : blocks[m] # "lang"
    ELSE 0

\* gemini_script.py 71-77 and manim_code_generator.py 69-75:
\* re.search(r'```json\n([\s\S]*?)\n```', t) or
\* re.search(r'```\n([\s\S]*?)\n```', t), group(1) of the match, else t.
\* The first pattern finds the first block with the label.  The second one
\* starts at the first fence that is followed by a line break, which is the
\* opening fence of a block without label or the closing fence of a labeled
\* block, and takes the text up to the next fence at the start of a line.
extract_payload(blocks) ==
    IF FirstLabeled(blocks) # 0
    THEN BlockContent(FirstLabeled(blocks))
    ELSE IF Len(blocks) = 0 THEN RawText
    ELSE IF blocks[1] = "none" THEN BlockContent(1)
    ELSE IF Len(blocks) >= 2 THEN TextAfter(1)
    ELSE RawText


\* ------------------------------------------------------ the mock fallbacks
\* Both mock functions are given, besides their arguments, the number of
\* calls made before in the process (earlier): whatever a function could read
\* apart from its arguments.  The code reads nothing of the kind.
Prompts == {"circles", "primes"}

StartTimes == <<"00:00", "00:10", "00:25", "00:40">>
EndTimes == <<"00:10", "00:25", "00:40", "00:55">>

\* generate_mock_script (gemini_script.py 121-160): a dict literal with four
\* scenes whose title, description and narrations embed the prompt.
generate_mock_script_dict(prompt, earlier) ==
    [title |-> <<"Understanding", prompt>>,
     description |-> <<"An educational video explaining", prompt>>,
     scenes |-> [n \in 1..MockScenes |->
                    [startTime |-> StartTimes[n], endTime |-> EndTimes[n],
                     narration |-> <<n, prompt>>,
                     visualDescription |-> n]]]

\* The scenes generate_mock_code may be given: an object with its narration,
\* or one without the narration key.
MockCodeScenes ==
    {[keys |-> {"narration", "visualDescription"}, narration |-> "Welcome"],
     [keys |-> {"narration", "visualDescription"}, narration |-> "Summary"],
     [keys |-> {"visualDescription"}, narration |-> ""]}

MockCodeIndexes == 0..MockScenes

\* Variant: from the second call on the summary template is the equation one.
generate_mock_code_text_varying(scene, index, earlier) ==
    IF "narration" \notin scene.keys
    THEN [raised |-> "KeyError", template |-> "", class |-> "",
          narration |-> ""]
    ELSE [raised |-> "None",
          template |-> CASE index = 0 -> "title"
                         [] index = 1 -> "equation"
                         [] index = 2 -> "visual example"
                         [] OTHER -> IF earlier = 0 THEN "summary"
                                     ELSE "equation",
          class |-> SceneName(index + 1),
          narration |-> scene.narration]

\* generate_mock_code (manim_code_generator.py 127-273): scene["narration"]
\* raises KeyError without the key (138); the template is picked by
\* index == 0, == 1, == 2, else (142, 164, 190, 234) and filled with
\* index + 1 and the narration.
generate_mock_code_text(scene, index, earlier) ==
    IF "narration" \notin scene.keys
    THEN [raised |-> "KeyError", template |-> "", class |-> "",
          narration |-> ""]
    ELSE [raised |-> "None",
          template |-> CASE index = 0 -> "title"
                         [] index = 1 -> "equation"
                         [] index = 2 -> "visual example"
                         [] OTHER -> "summary",
          class |-> SceneName(index + 1),
          narration |-> scene.narration]


\* ------------------------------------------------- generate_manim_code
\* The lines of a program generate_mock_code returned: the import, the class
\* statement `class Scene<index+1>(Scene):` and the body of the template.
MockProgram(r) ==
    <<[kind |-> "text", name |-> "from manim import *", base |-> "",
       spaced |-> FALSE],
      [kind |-> "class", name |-> r.class, base |-> "Scene",
       spaced |-> FALSE],
      [kind |-> "text", name |-> r.template, base |-> "", spaced |-> FALSE]>>

\* What the generative call gives generate_manim_code: an exception, or a
\* text, given by the payload taken from it.
CodeResponses == {<<"raise">>} \cup {<<"text", c>> : c \in GeneratedCodes}

\* generate_manim_code (manim_code_generator.py 21-86).  Without the
\* credential, and after any exception, the result is generate_mock_code's,
\* whose KeyError leaves the wrapper; the prompt reads
\* scene['visualDescription'] (44); a response text is post-processed by
\* ensure_proper_class_name (78).
generate_manim_code(scene, index, key, response) ==
    LET mock == generate_mock_code_text(scene, index, 0)
        mocked == [raised |-> mock.raised,
                   code |-> IF mock.raised = "None" THEN MockProgram(mock)
                            ELSE <<>>,
                   source |-> "mock"]
    IN
    IF ~key THEN mocked
    ELSE IF "visualDescription" \notin scene.keys THEN mocked
    ELSE IF response[1] = "raise" THEN mocked
    ELSE [raised |-> "None",
          code |-> ensure_proper_class_name(response[2], index),
          source |-> IF extract_class_name(response[2]) = "None"
                     THEN "fallback" ELSE "generated"]

\* ------------------------------------------------------------------- Init
Init ==
    /\ job_statuses = <<>>
    /\ fs = [j \in JobIds |-> {}]
    /\ pc = [j \in JobIds |-> "unborn"]
    /\ script = [j \in JobIds |-> NoScript]
    /\ scene_i = [j \in JobIds |-> 0]
    /\ exc = [j \in JobIds |-> "None"]
    /\ running = Idle
    /\ calls = [j \in JobIds |-> <<>>]
    /\ GEMINI_API_KEY \in BOOLEAN
    /\ ELEVENLABS_API_KEY \in BOOLEAN
    /\ faults = 0
    /\ disk = NoDisk
    /\ last_call = NoCall


\* --------------------------------------------------------------- registry
\* POST /generate-video (main.py 197-219).  uuid4 gives an id never used
\* before (the ids are drawn in IdOrder); the background task is only
\* scheduled (pc = "queued"): it runs after the response has been sent.
generate_video(j) ==
    /\ running = Idle
    /\ pc[j] = "unborn"
    /\ \A k \in JobIds : IdOrder[k] < IdOrder[j] => pc[k] # "unborn"
    /\ fs' = [fs EXCEPT ![j] = {job_dir}]
    /\ job_statuses' = Put(j, QueuedRecord(j))
    /\ pc' = [pc EXCEPT ![j] = "queued"]
    /\ UNCHANGED <<script, scene_i, exc, running, calls, EnvVars, UnitVars, faults>>

\* GET /job/{job_id} (main.py 232-238): what the handler answers
get_job_status_response(j) ==
    IF ~Known(j)
    THEN [status_code |-> 404, body |-> <<>>]
    ELSE [status_code |-> 200, body |-> <<job_statuses[j]>>]

\* The handler reads job_statuses and writes nothing.
get_job_status(j) ==
    /\ running = Idle
    /\ get_job_status_response(j).status_code \in {200, 404}
    /\ UNCHANGED vars

\* The ways shutil.rmtree(job_dir) may end: "ok", or an error raised before
\* anything was removed ("write") or after the content was ("partial").
RmtreeOutcome == {"ok", "write", "partial"}

\* Variant: no not-found check, the handler goes on to remove an unknown id.
delete_job_result_nocheck(j, f) ==
    IF job_dir \in fs[j]
    THEN IF f = "ok"
         THEN [status_code |-> 200, job_statuses |-> Del(j), dir |-> {}]
         ELSE [status_code |-> 500, job_statuses |-> job_statuses,
               dir |-> IF f = "partial" THEN {job_dir} ELSE fs[j]]
    ELSE [status_code |-> 200, job_statuses |-> Del(j), dir |-> fs[j]]

\* Variant: the success path forgets the del statement.
delete_job_result_keeps(j, f) ==
    IF ~Known(j)
    THEN [status_code |-> 404, job_statuses |-> job_statuses, dir |-> fs[j]]
    ELSE IF job_dir \in fs[j]
    THEN IF f = "ok"
         THEN [status_code |-> 200, job_statuses |-> job_statuses, dir |-> {}]
         ELSE [status_code |-> 500, job_statuses |-> job_statuses,
               dir |-> IF f = "partial" THEN {job_dir} ELSE fs[j]]
    ELSE [status_code |-> 200, job_statuses |-> Del(j), dir |-> fs[j]]

\* DELETE /job/{job_id} (main.py 251-271): the answer, and the registry and
\* the workspace of j the handler leaves.  When rmtree raises, the del
\* statement after it is skipped and the answer is 500.
delete_job_result(j, f) ==
    IF ~Known(j)
    THEN [status_code |-> 404, job_statuses |-> job_statuses, dir |-> fs[j]]
    ELSE IF job_dir \in fs[j]
    THEN IF f = "ok"
         THEN [status_code |-> 200, job_statuses |-> Del(j), dir |-> {}]
         ELSE [status_code |-> 500, job_statuses |-> job_statuses,
               dir |-> IF f = "partial" THEN {job_dir} ELSE fs[j]]
    ELSE [status_code |-> 200, job_statuses |-> Del(j), dir |-> fs[j]]

delete_job_with(j, f) ==
    /\ running = Idle
    /\ f # "ok" => Known(j) /\ job_dir \in fs[j]
    /\ f = "partial" => fs[j] # {job_dir}
    /\ Allowed(f)
    /\ faults' = faults + Cost(f)
    /\ job_statuses' = delete_job_result(j, f).job_statuses
    /\ fs' = [fs EXCEPT ![j] = delete_job_result(j, f).dir]
    /\ UNCHANGED <<TaskVars, EnvVars, UnitVars>>

delete_job(j) == \E f \in RmtreeOutcome : delete_job_with(j, f)

\* ------------------------------------------------------------ the pipeline
\* Variant: the failure handler schedules the task again.
Except_retry(j, e) ==
    /\ exc' = [exc EXCEPT ![j] = IF Known(j) THEN e ELSE "KeyError"]
    /\ job_statuses' = IF Known(j)
                       THEN Put(j, FailedRecord(job_statuses[j], e))
                       ELSE job_statuses
    /\ pc' = [pc EXCEPT ![j] = IF Known(j) THEN "queued" ELSE "crashed"]
    /\ running' = Idle
    /\ UNCHANGED scene_i

\* except Exception as e (main.py 179-183): the three updates index
\* job_statuses[job_id]; with the record deleted the first of them raises
\* KeyError inside the handler and the task ends with an uncaught exception.
Except(j, e) ==
    /\ exc' = [exc EXCEPT ![j] = IF Known(j) THEN e ELSE "KeyError"]
    /\ job_statuses' = IF Known(j)
                       THEN Put(j, FailedRecord(job_statuses[j], e))
                       ELSE job_statuses
    /\ pc' = [pc EXCEPT ![j] = IF Known(j) THEN "done" ELSE "crashed"]
    /\ running' = Idle
    /\ UNCHANGED scene_i

\* The status updates between two stages (main.py 119-120, 133-134, 144-145,
\* 155-156): each indexes job_statuses[job_id], KeyError when it is gone.
StageDone(j, p, msg, nextpc) ==
    IF Known(j)
    THEN /\ job_statuses' = Put(j, [job_statuses[j] EXCEPT
                                       !.progress = p, !.message = msg])
         /\ pc' = [pc EXCEPT ![j] = nextpc]
         /\ scene_i' = [scene_i EXCEPT ![j] = 0]
         /\ running' = j
         /\ UNCHANGED exc
    ELSE Except(j, "KeyError")

\* Variant: the loop body runs for the first scene only.
NextScene_first_only(j, again, p, msg, nextpc) ==
    StageDone(j, p, msg, nextpc)

\* The end of a per-scene loop body: the next scene, or the stage is done.
NextScene(j, again, p, msg, nextpc) ==
    IF scene_i[j] + 1 < script[j].scenes
    THEN /\ scene_i' = [scene_i EXCEPT ![j] = @ + 1]
         /\ pc' = [pc EXCEPT ![j] = again]
         /\ running' = j
         /\ UNCHANGED <<job_statuses, exc>>
    ELSE StageDone(j, p, msg, nextpc)

\* Variant: the directories are made with their parents, so the task starts
\* also when the workspace is gone.
TaskStart_parents(j) ==
    /\ running = Idle
    /\ pc[j] = "queued"
    /\ fs' = [fs EXCEPT ![j] = @ \cup {job_dir}
                                  \cup {SubDirs[n] : n \in 1..4}]
    /\ job_statuses' = Put(j, ProcessingRecord(j))
    /\ pc' = [pc EXCEPT ![j] = "generate_script"]
    /\ running' = j
    /\ calls' = Invoked(j, "generate_video_task", <<j>>)
    /\ UNCHANGED <<script, scene_i, exc, faults, EnvVars, UnitVars>>

\* main.py 90-110.  The four mkdir calls stand before the try statement: an
\* error of one of them leaves the task uncaught.  k is the number of
\* directories created before a mkdir raises; a missing job_dir makes the
\* first one raise.
TaskStart(j) ==
    /\ running = Idle
    /\ pc[j] = "queued"
    /\ \E k \in 0..4 :
        /\ (job_dir \notin fs[j]) => k = 0
        /\ k < 4 /\ job_dir \in fs[j] => faults < MaxFaults
        /\ faults' = IF k < 4 /\ job_dir \in fs[j] THEN faults + 1 ELSE faults
        /\ fs' = [fs EXCEPT ![j] = @ \cup {SubDirs[n] : n \in 1..k}]
        /\ IF k < 4
           THEN /\ exc' = [exc EXCEPT ![j] = "OSError"]
                /\ pc' = [pc EXCEPT ![j] = "crashed"]
                /\ UNCHANGED <<job_statuses, running>>
           ELSE /\ job_statuses' = Put(j, ProcessingRecord(j))
                /\ pc' = [pc EXCEPT ![j] = "generate_script"]
                /\ running' = j
                /\ UNCHANGED exc
    /\ UNCHANGED <<script, scene_i, EnvVars, UnitVars>>
    /\ calls' = Invoked(j, "generate_video_task", <<j>>)

\* ------------------------------------------------------- stage 1: script
SceneKeys == {"startTime", "endTime", "narration", "visualDescription"}
ScriptKeys == {"title", "description", "scenes"}

\* A scene of a parsed response.  An object carries a set of keys (all four,
\* or all but one); an array of strings or a string ("sequence") contains a
\* set of the names, and `key in scene` is true of those as well; for a
\* number or null `key in scene` raises TypeError.
SceneChoices ==
    [type : {"dict", "sequence"},
     keys : {SceneKeys} \cup {SceneKeys \ {k} : k \in SceneKeys}]
        \cup {[type |-> "int", keys |-> {}]}

\* all(key in scene for key in scene_keys) (gemini_script.py 116)
HasSceneKeys(scene) == scene.type # "int" /\ SceneKeys \subseteq scene.keys

SceneLists == UNION {[1..n -> SceneChoices] : n \in 0..MaxScenes}

\* What json.loads may return for the response text.
ParsedScripts ==
    [type : {"dict", "other"}, keys : SUBSET ScriptKeys,
     scenes_is_list : BOOLEAN, scenes : SceneLists]

\* Variant: an empty scene list is accepted.
validate_script_allow_empty(s) ==
    IF s.type # "dict" THEN FALSE
    ELSE IF ~(ScriptKeys \subseteq s.keys) THEN FALSE
    ELSE IF ~s.scenes_is_list THEN FALSE
    ELSE \A n \in 1..Len(s.scenes) : HasSceneKeys(s.scenes[n])

\* validate_script returns True (gemini_script.py 94-119)
validate_script(s) ==
    IF s.type # "dict" THEN FALSE
    ELSE IF ~(ScriptKeys \subseteq s.keys) THEN FALSE
    ELSE IF ~s.scenes_is_list \/ Len(s.scenes) = 0 THEN FALSE
    ELSE \A n \in 1..Len(s.scenes) : HasSceneKeys(s.scenes[n])

\* validate_script raises: the loop meets a number or null before it meets a
\* scene that lacks a key.
validate_script_raises(s) ==
    /\ s.type = "dict" /\ ScriptKeys \subseteq s.keys
    /\ s.scenes_is_list
    /\ \E n \in 1..Len(s.scenes) :
          /\ s.scenes[n].type = "int"
          /\ \A m \in 1..(n - 1) : HasSceneKeys(s.scenes[m])

\* Variant: a template of three scenes.
generate_mock_script_short == [mock |-> TRUE, scenes |-> 3, arrays |-> {}]

generate_mock_script == [mock |-> TRUE, scenes |-> MockScenes, arrays |-> {}]

ScriptResponses ==
    {[kind |-> "raise"], [kind |-> "notjson"]}
        \cup {[kind |-> "parsed", doc |-> d] : d \in ParsedScripts}

\* generate_script after the generative call (gemini_script.py 65-92): any
\* exception (transport error, json.loads failure, the ValueError of a
\* rejected structure) gives the mock script.
ScriptResult(r) ==
    IF r.kind = "parsed" /\ validate_script(r.doc)
    THEN [mock |-> FALSE, scenes |-> Len(r.doc.scenes),
          arrays |-> {n \in 1..Len(r.doc.scenes) :
                         r.doc.scenes[n].type = "sequence"}]
    ELSE generate_mock_script

\* The scripts generate_script can return after a call of the service.
ScriptResults == {ScriptResult(r) : r \in ScriptResponses}

\* main.py 114-121: write script.json, then progress 0.2 and the script
save_script(j, s) ==
    /\ script' = [script EXCEPT ![j] = s]
    /\ \E f \in {"ok", "write"} :
        /\ Allowed(f)
        /\ f = "write" => script_dir \in fs[j]
        /\ faults' = faults + Cost(f)
        /\ IF CanWrite(fs[j], script_dir, f)
           THEN /\ fs' = [fs EXCEPT ![j] = @ \cup {script_path}]
                /\ IF Known(j)
                   THEN /\ job_statuses' =
                              Put(j, [job_statuses[j] EXCEPT
                                         !.progress = 20,
                                         !.message = "Generating Manim code...",
                                         !.script = s])
                        /\ pc' = [pc EXCEPT ![j] = "generate_manim_code"]
                        /\ scene_i' = [scene_i EXCEPT ![j] = 0]
                        /\ running' = j
                        /\ UNCHANGED exc
                   ELSE Except(j, "KeyError")
           ELSE /\ UNCHANGED fs
                /\ Except(j, "OSError")

\* generate_script up to its await (gemini_script.py 32-65); without the
\* credential the mock script is returned at once.
generate_script_call(j) ==
    /\ running = j
    /\ pc[j] = "generate_script"
    /\ IF ~GEMINI_API_KEY
       THEN save_script(j, generate_mock_script)
       ELSE /\ pc' = [pc EXCEPT ![j] = "script_await"]
            /\ running' = Idle
            /\ UNCHANGED <<job_statuses, fs, script, scene_i, exc, faults>>
    /\ UNCHANGED <<EnvVars, UnitVars>>
    /\ calls' = Invoked(j, "generate_script", <<>>)

\* generate_script from the response on, and main.py 114-121
generate_script_return(j) ==
    /\ running = Idle
    /\ pc[j] = "script_await"
    /\ \E s \in ScriptResults : save_script(j, s)
    /\ UNCHANGED <<calls, EnvVars, UnitVars>>

\* --------------------------------------------------- stage 2: scene code
\* main.py 127-134: write scene_<i+1>.py; after the last scene progress 0.4
save_code(j) ==
    \E f \in {"ok", "write"} :
        /\ Allowed(f)
        /\ f = "write" => script_dir \in fs[j]
        /\ faults' = faults + Cost(f)
        /\ IF CanWrite(fs[j], script_dir, f)
           THEN /\ fs' = [fs EXCEPT ![j] = @ \cup {code_path(scene_i[j])}]
                /\ NextScene(j, "generate_manim_code", 40,
                             "Generating audio...", "generate_speech")
           ELSE /\ UNCHANGED fs
                /\ Except(j, "OSError")

\* generate_manim_code up to its await (manim_code_generator.py 32-63);
\* without the credential the mock program is returned at once.  A scene that
\* is not an object makes scene['visualDescription'] (line 44) raise
\* TypeError; the handler at 83-86 calls generate_mock_code, whose
\* scene["narration"] (line 138) raises it again, out of the wrapper.
generate_manim_code_call(j) ==
    /\ running = j
    /\ pc[j] = "generate_manim_code"
    /\ IF scene_i[j] + 1 \in script[j].arrays
       THEN /\ Except(j, "TypeError")
            /\ UNCHANGED <<fs, faults>>
       ELSE IF ~GEMINI_API_KEY
       THEN save_code(j)
       ELSE /\ pc' = [pc EXCEPT ![j] = "code_await"]
            /\ running' = Idle
            /\ UNCHANGED <<job_statuses, fs, scene_i, exc, faults>>
    /\ UNCHANGED <<script, EnvVars, UnitVars>>
    /\ calls' = Invoked(j, "generate_manim_code", <<scene_i[j]>>)

\* generate_manim_code from the response on (manim_code_generator.py 63-86,
\* every outcome returns program text), and main.py 127-134
generate_manim_code_return(j) ==
    /\ running = Idle
    /\ pc[j] = "code_await"
    /\ save_code(j)
    /\ UNCHANGED <<calls, script, EnvVars, UnitVars>>

\* ------------------------------------------------------- stage 3: speech
\* generate_mock_audio (elevenlabs_tts.py 79-102): every failure is swallowed
\* and output_path is returned whether or not the file was written.
generate_mock_audio(ws, i, f) ==
    IF f = "ok" THEN makedirs(ws, audio_dir, f) \cup {audio_path(i)}
    ELSE makedirs(ws, audio_dir, f)

\* main.py 141-145: next scene, or progress 0.6 after the last
speech_next(j) ==
    NextScene(j, "generate_speech", 60, "Rendering animations...",
              "render_scene")

\* generate_speech up to requests.post (elevenlabs_tts.py 30-57).  The post is
\* a blocking call: the task keeps the event loop while it waits.
generate_speech_call(j) ==
    /\ running = j
    /\ pc[j] = "generate_speech"
    /\ IF ~ELEVENLABS_API_KEY
       THEN \E f \in FsOutcomes(fs[j], audio_dir) :
            /\ Allowed(f)
            /\ faults' = faults + Cost(f)
            /\ fs' = [fs EXCEPT ![j] = generate_mock_audio(@, scene_i[j], f)]
            /\ speech_next(j)
       ELSE /\ pc' = [pc EXCEPT ![j] = "speech_post"]
            /\ UNCHANGED <<job_statuses, fs, scene_i, exc, running, faults>>
    /\ UNCHANGED <<script, EnvVars, UnitVars>>
    /\ calls' = Invoked(j, "generate_speech",
                        <<scene_i[j], audio_path(scene_i[j])>>)

\* generate_speech from the response on (elevenlabs_tts.py 59-77): a 200 body
\* is written to output_path; any other status, and any exception (of the post
\* or of the write), falls back to generate_mock_audio.
generate_speech_return(j) ==
    /\ running = j
    /\ pc[j] = "speech_post"
    /\ \E status \in {"200", "other", "raise"}, f1, f2 \in FsOutcome :
        /\ f1 \in FsOutcomes(fs[j], audio_dir)
        /\ f2 \in FsOutcomes(makedirs(fs[j], audio_dir, f1), audio_dir)
        /\ faults + Cost(f1) + Cost(f2) <= MaxFaults
        /\ faults' = faults + Cost(f1) + Cost(f2)
        /\ IF status = "200"
           THEN IF f1 = "ok"
                THEN /\ f2 = "ok"
                     /\ fs' = [fs EXCEPT ![j] = makedirs(@, audio_dir, f1)
                                                   \cup {audio_path(scene_i[j])}]
                ELSE fs' = [fs EXCEPT ![j] =
                               generate_mock_audio(makedirs(@, audio_dir, f1),
                                                   scene_i[j], f2)]
           ELSE /\ f1 = "ok"
                /\ fs' = [fs EXCEPT ![j] = generate_mock_audio(@, scene_i[j], f2)]
    /\ speech_next(j)
    /\ UNCHANGED <<calls, script, EnvVars, UnitVars>>

\* ------------------------------------------------------ stage 4: rendering
\* Variant: the rendering stage is reported finished after its first scene.
render_next_early(j) ==
    StageDone(j, 80, "Composing final video...", "combine_audio_video")

\* main.py 152-156: next scene, or progress 0.8 after the last
render_next(j) ==
    NextScene(j, "render_scene", 80, "Composing final video...",
              "combine_audio_video")

\* render_scene up to the await of the manim subprocess (manim_renderer.py
\* 30-86).  Without the manim package, or when the temp file, the output
\* directory or the process start fails, it goes on in generate_mock_video.
render_scene_call(j) ==
    /\ running = j
    /\ pc[j] = "render_scene"
    /\ \E manim \in {"missing", "exec_fails", "started"},
          f \in FsOutcomes(fs[j], video_dir) :
        /\ Allowed(f)
        /\ faults' = faults + Cost(f)
        /\ manim = "missing" => f = "ok"
        /\ IF manim = "missing" \/ f = "write"
           THEN /\ pc' = [pc EXCEPT ![j] = "generate_mock_video"]
                /\ UNCHANGED <<fs, running>>
           ELSE /\ fs' = [fs EXCEPT ![j] = makedirs(@, video_dir, f)]
                /\ IF f = "makedirs" \/ manim = "exec_fails"
                   THEN /\ pc' = [pc EXCEPT ![j] = "generate_mock_video"]
                        /\ UNCHANGED running
                   ELSE /\ pc' = [pc EXCEPT ![j] = "render_await"]
                        /\ running' = Idle
    /\ UNCHANGED <<job_statuses, script, scene_i, exc, EnvVars, UnitVars>>
    /\ calls' = Invoked(j, "render_scene",
                        <<scene_i[j], video_path(scene_i[j])>>)

\* render_scene after the manim subprocess (manim_renderer.py 86-128).  A
\* non-zero exit and a missing artifact call generate_mock_video.  With exit
\* code 0 and an artifact, line 109 reads shutil, which `import shutil` in the
\* finally clause (line 121) makes a local name of the function, unbound at
\* that point: UnboundLocalError, caught at line 114, generate_mock_video.
render_scene_return(j) ==
    /\ running = Idle
    /\ pc[j] = "render_await"
    /\ \E outcome \in {"nonzero", "no_artifact", "artifact"} :
          pc' = [pc EXCEPT ![j] = "generate_mock_video"]
    /\ running' = j
    /\ UNCHANGED <<calls, job_statuses, fs, script, scene_i, exc, EnvVars, UnitVars, faults>>

\* generate_mock_video up to the await of ffmpeg (manim_renderer.py 156-178);
\* when ffmpeg cannot be started the stub bytes are written at once (187-192).
\* Every failure is swallowed and output_path is returned.
generate_mock_video_call(j) ==
    /\ running = j
    /\ pc[j] = "generate_mock_video"
    /\ \E ffmpeg \in {"exec_fails", "started"},
          f \in FsOutcomes(fs[j], video_dir) :
        /\ Allowed(f)
        /\ faults' = faults + Cost(f)
        /\ ffmpeg = "started" => f # "write"
        /\ IF f = "ok" /\ ffmpeg = "started"
           THEN /\ fs' = [fs EXCEPT ![j] = makedirs(@, video_dir, f)]
                /\ pc' = [pc EXCEPT ![j] = "mock_video_await"]
                /\ running' = Idle
                /\ UNCHANGED <<job_statuses, scene_i, exc>>
           ELSE /\ fs' = [fs EXCEPT ![j] =
                             IF f = "ok"
                             THEN makedirs(@, video_dir, f)
                                     \cup {video_path(scene_i[j])}
                             ELSE makedirs(@, video_dir, f)]
                /\ render_next(j)
    /\ UNCHANGED <<calls, script, EnvVars, UnitVars>>

\* generate_mock_video after ffmpeg (manim_renderer.py 178-195): exit code 0
\* means ffmpeg wrote the clip; otherwise the stub bytes are written, and a
\* failure of that write is swallowed.
generate_mock_video_return(j) ==
    /\ running = Idle
    /\ pc[j] = "mock_video_await"
    /\ \E rc \in {"zero", "nonzero"}, f \in {"ok", "write"} :
        /\ Allowed(f)
        /\ faults' = faults + Cost(f)
        /\ rc = "zero" => video_dir \in fs[j] /\ f = "ok"
        /\ f = "write" => video_dir \in fs[j]
        /\ fs' = [fs EXCEPT ![j] =
                     IF rc = "zero" \/ CanWrite(@, video_dir, f)
                     THEN @ \cup {video_path(scene_i[j])} ELSE @]
    /\ render_next(j)
    /\ UNCHANGED <<calls, script, EnvVars, UnitVars>>

\* ---------------------------------------------------- stage 5: composing
\* fallback_copy (video_composer.py 155-179): copies source to dest; every
\* failure, a missing source included, is swallowed and "" is returned.
fallback_copy(ws, source, dest, f) ==
    IF f = "ok" /\ source \in ws
    THEN makedirs(ws, output_dir, f) \cup {dest}
    ELSE makedirs(ws, output_dir, f)

\* main.py 137-141 and 148-152: the lists the speech and the render loop
\* build, one path per scene, read by index in the mux loop (163-164).
audio_paths_list(j) == [i \in 1..script[j].scenes |-> audio_path(i - 1)]
video_paths_list(j) == [i \in 1..script[j].scenes |-> video_path(i - 1)]

\* Variant: the mux of a scene is tried again after it returned.
mux_next_again(j) ==
    /\ scene_i' = scene_i
    /\ pc' = [pc EXCEPT ![j] = "combine_audio_video"]
    /\ running' = j
    /\ UNCHANGED <<job_statuses, exc>>

\* main.py 160-167: next scene, or on to the concatenation
mux_next(j) ==
    /\ IF scene_i[j] + 1 < script[j].scenes
       THEN /\ scene_i' = [scene_i EXCEPT ![j] = @ + 1]
            /\ pc' = [pc EXCEPT ![j] = "combine_audio_video"]
       ELSE /\ scene_i' = [scene_i EXCEPT ![j] = 0]
            /\ pc' = [pc EXCEPT ![j] = "concat_videos"]
    /\ running' = j
    /\ UNCHANGED <<job_statuses, exc>>

\* combine_audio_video up to the await of ffmpeg (video_composer.py 28-55);
\* a failing makedirs or process start goes to fallback_copy at once.
combine_audio_video_call(j) ==
    /\ running = j
    /\ pc[j] = "combine_audio_video"
    /\ \E ffmpeg \in {"exec_fails", "started"}, f1, f2 \in FsOutcome :
        /\ f1 \in FsOutcomes(fs[j], output_dir) \ {"write"}
        /\ faults + Cost(f1) + Cost(f2) <= MaxFaults
        /\ faults' = faults + Cost(f1) + Cost(f2)
        /\ IF f1 = "ok" /\ ffmpeg = "started"
           THEN /\ f2 = "ok"
                /\ fs' = [fs EXCEPT ![j] = makedirs(@, output_dir, f1)]
                /\ pc' = [pc EXCEPT ![j] = "mux_await"]
                /\ running' = Idle
                /\ UNCHANGED <<job_statuses, scene_i, exc>>
           ELSE /\ f2 \in FsOutcomes(makedirs(fs[j], output_dir, f1), output_dir)
                /\ fs' = [fs EXCEPT ![j] =
                             fallback_copy(makedirs(@, output_dir, f1),
                                           video_path(scene_i[j]),
                                           combined_path(scene_i[j]), f2)]
                /\ mux_next(j)
    /\ UNCHANGED <<script, EnvVars, UnitVars>>
    /\ calls' = Invoked(j, "combine_audio_video",
                        <<video_paths_list(j)[scene_i[j] + 1],
                          audio_paths_list(j)[scene_i[j] + 1],
                          combined_path(scene_i[j])>>)

\* combine_audio_video after ffmpeg (video_composer.py 55-73): exit code 0
\* means the muxed clip was written, which needs both inputs; otherwise
\* fallback_copy of the video.
combine_audio_video_return(j) ==
    /\ running = Idle
    /\ pc[j] = "mux_await"
    /\ \E rc \in {"zero", "nonzero"}, f \in FsOutcomes(fs[j], output_dir) :
        /\ Allowed(f)
        /\ faults' = faults + Cost(f)
        /\ rc = "zero" =>
              /\ f = "ok"
              /\ {video_path(scene_i[j]), audio_path(scene_i[j]), output_dir}
                    \subseteq fs[j]
        /\ fs' = [fs EXCEPT ![j] =
                     IF rc = "zero" THEN @ \cup {combined_path(scene_i[j])}
                     ELSE fallback_copy(@, video_path(scene_i[j]),
                                        combined_path(scene_i[j]), f)]
    /\ mux_next(j)
    /\ UNCHANGED <<calls, script, EnvVars, UnitVars>>

\* The combined clips main.py hands to concat_videos: one per scene.
combined_paths(j) == [i \in 1..script[j].scenes |-> combined_path(i - 1)]

\* main.py 174-177: the result of concat_videos is not looked at
complete(j) ==
    IF Known(j)
    THEN /\ job_statuses' = Put(j, CompletedRecord(job_statuses[j], j))
         /\ pc' = [pc EXCEPT ![j] = "done"]
         /\ running' = Idle
         /\ UNCHANGED <<scene_i, exc>>
    ELSE Except(j, "KeyError")

\* concat_videos up to the await of ffmpeg (video_composer.py 86-126): the
\* empty list returns "" before anything is created, one path is copied, and
\* a failing makedirs or process start copies the first path.
concat_videos_call(j) ==
    /\ running = j
    /\ pc[j] = "concat_videos"
    /\ LET video_paths == combined_paths(j) IN
       IF Len(video_paths) = 0
       THEN /\ complete(j)
            /\ UNCHANGED <<fs, faults>>
       ELSE \E ffmpeg \in {"exec_fails", "started"}, f1, f2 \in FsOutcome :
            /\ f1 \in FsOutcomes(fs[j], output_dir) \ {"write"}
            /\ faults + Cost(f1) + Cost(f2) <= MaxFaults
            /\ faults' = faults + Cost(f1) + Cost(f2)
            /\ IF f1 = "ok" /\ Len(video_paths) > 1 /\ ffmpeg = "started"
               THEN /\ f2 = "ok"
                    /\ fs' = [fs EXCEPT ![j] = makedirs(@, output_dir, f1)]
                    /\ pc' = [pc EXCEPT ![j] = "concat_await"]
                    /\ running' = Idle
                    /\ UNCHANGED <<job_statuses, scene_i, exc>>
               ELSE /\ f2 \in FsOutcomes(makedirs(fs[j], output_dir, f1),
                                         output_dir)
                    /\ fs' = [fs EXCEPT ![j] =
                                 fallback_copy(makedirs(@, output_dir, f1),
                                               video_paths[1], final_path, f2)]
                    /\ complete(j)
    /\ UNCHANGED <<script, EnvVars, UnitVars>>
    /\ calls' = Invoked(j, "concat_videos", <<combined_paths(j), final_path>>)

\* concat_videos after ffmpeg (video_composer.py 126-153): exit code 0 means
\* the final video was written, which needs every listed clip; otherwise
\* fallback_copy of the first clip.
concat_videos_return(j) ==
    /\ running = Idle
    /\ pc[j] = "concat_await"
    /\ LET video_paths == combined_paths(j) IN
       \E rc \in {"zero", "nonzero"}, f \in FsOutcomes(fs[j], output_dir) :
        /\ Allowed(f)
        /\ faults' = faults + Cost(f)
        /\ rc = "zero" =>
              /\ f = "ok"
              /\ output_dir \in fs[j]
              /\ \A n \in 1..Len(video_paths) : video_paths[n] \in fs[j]
        /\ fs' = [fs EXCEPT ![j] =
                     IF rc = "zero" THEN @ \cup {final_path}
                     ELSE fallback_copy(@, video_paths[1], final_path, f)]
    /\ complete(j)
    /\ UNCHANGED <<calls, script, EnvVars, UnitVars>>

\* -------------------------------------------------------------------- Next
Next ==
    \E j \in JobIds :
        \/ generate_video(j)
        \/ get_job_status(j)
        \/ delete_job(j)
        \/ TaskStart(j)
        \/ generate_script_call(j)
        \/ generate_script_return(j)
        \/ generate_manim_code_call(j)
        \/ generate_manim_code_return(j)
        \/ generate_speech_call(j)
        \/ generate_speech_return(j)
        \/ render_scene_call(j)
        \/ render_scene_return(j)
        \/ generate_mock_video_call(j)
        \/ generate_mock_video_return(j)
        \/ combine_audio_video_call(j)
        \/ combine_audio_video_return(j)
        \/ concat_videos_call(j)
        \/ concat_videos_return(j)

Spec == Init /\ [][Next]_vars

\* ------------------------------------- the wrappers, one call at a time
PathLists == UNION {[1..n -> Videos] : n \in 0..MaxPaths}

\* One behaviour is one call of one wrapper on one of the initial disks.
\* Outcomes that a call does not get to are fixed ("ok", "exec_fails"), so
\* that one behaviour of the wrapper is one step.
call_combine_audio_video ==
    /\ last_call = NoCall
    /\ \E video \in Videos, mk \in MkOutcomes(disk), tool \in ToolOutcome,
          mk2, cp \in {"ok", "fails"} :
        /\ mk = "fails" => tool = "exec_fails"
        /\ mk = "ok" => mk2 = "ok"
        /\ mk2 = "fails" => cp = "ok"
        /\ tool = "zero" =>
              Exists(disk, video) /\ Exists(disk, "in/a.mp3") /\ cp = "ok"
        /\ LET r == combine_audio_video(disk, video, "in/a.mp3",
                                        mk, tool, mk2, cp) IN
           /\ disk' = r.disk
           /\ last_call' = [op |-> "combine_audio_video", video |-> video,
                            mk |-> mk, tool |-> tool, mk2 |-> mk2, cp |-> cp,
                            ret |-> r.ret, tool_run |-> r.tool_run,
                            before |-> disk]
    /\ UNCHANGED PipelineVars

call_concat_videos ==
    /\ last_call = NoCall
    /\ \E video_paths \in PathLists, mk \in MkOutcomes(disk),
          tmp \in {"ok", "mkdtemp_fails", "write_fails"}, tool \in ToolOutcome,
          mk2, cp \in {"ok", "fails"} :
        /\ Len(video_paths) = 0 => mk = "ok" /\ cp = "ok"
        /\ Len(video_paths) < 2 \/ mk = "fails" =>
              tmp = "ok" /\ tool = "exec_fails"
        /\ tmp # "ok" => tool = "exec_fails"
        /\ mk = "ok" => mk2 = "ok"
        /\ mk2 = "fails" => cp = "ok"
        /\ tool = "zero" =>
              /\ \A n \in 1..Len(video_paths) : Exists(disk, video_paths[n])
              /\ cp = "ok"
        /\ LET r == concat_videos(disk, video_paths, mk, tmp, tool, mk2, cp) IN
           /\ disk' = r.disk
           /\ last_call' = [op |-> "concat_videos", video_paths |-> video_paths,
                            mk |-> mk, tmp |-> tmp, tool |-> tool,
                            mk2 |-> mk2, cp |-> cp,
                            ret |-> r.ret, tool_run |-> r.tool_run,
                            before |-> disk]
    /\ UNCHANGED PipelineVars

call_render_scene ==
    /\ last_call = NoCall
    /\ \E code \in Codes, manim \in {"missing", "installed"},
          tw, mk \in {"ok", "fails"}, proc \in ProcOutcome,
          quality \in Qualities :
        /\ manim = "missing" \/ extract_class_name(code) = "None" =>
              tw = "ok" /\ mk = "ok" /\ proc = "exec_fails"
        /\ (manim = "missing" \/ extract_class_name(code) = "None"
               \/ tw = "fails" \/ mk = "fails") => quality = "medium"
        /\ tw = "fails" => mk = "ok"
        /\ tw = "fails" \/ mk = "fails" => proc = "exec_fails"
        /\ mk = "fails" => ~disk.out_dir
        /\ \E m \in MockOutcomes(
                       IF manim = "installed" /\ tw = "ok" /\ mk = "ok"
                          /\ extract_class_name(code) # "None"
                       THEN makedirs_out(disk, mk) ELSE disk) :
           LET r == render_scene(disk, code, manim, tw, mk, proc, m) IN
           /\ disk' = r.disk
           /\ last_call' = [op |-> "render_scene", code |-> code,
                            manim |-> manim, tw |-> tw, mk |-> mk,
                            proc |-> proc, m |-> m, quality |-> quality,
                            flag |-> IF r.engine_run
                                     THEN quality_flag(quality) ELSE "none",
                            ret |-> r.ret, engine_run |-> r.engine_run,
                            before |-> disk]
    /\ UNCHANGED PipelineVars

call_generate_speech ==
    /\ last_call = NoCall
    /\ \E text \in {"str", "other"}, resp \in PostOutcome,
          mk \in MkOutcomes(disk), w \in {"ok", "fails"} :
        /\ text # "str" \/ ~ELEVENLABS_API_KEY => resp = "raise"
        /\ resp # "200" => mk = "ok" /\ w = "ok"
        /\ mk = "fails" => w = "ok"
        /\ \E m \in MockAudioOutcomes(
                       IF text = "str" /\ ELEVENLABS_API_KEY /\ resp = "200"
                       THEN makedirs_out(disk, mk) ELSE disk) :
           /\ (text = "str" /\ ELEVENLABS_API_KEY /\ resp = "200"
                 /\ mk = "ok" /\ w = "ok") => m = [mk |-> "ok", w |-> "ok"]
           /\ LET r == generate_speech(disk, ELEVENLABS_API_KEY, text, resp,
                                       mk, w, m) IN
              /\ disk' = r.disk
              /\ last_call' = [op |-> "generate_speech", text |-> text,
                               resp |-> resp, mk |-> mk, w |-> w, m |-> m,
                               ret |-> r.ret, posted |-> r.posted,
                               before |-> disk]
    /\ UNCHANGED PipelineVars

call_ensure_proper_class_name ==
    /\ last_call = NoCall
    /\ \E code \in GeneratedCodes, index \in Indexes :
        LET r == ensure_proper_class_name(code, index) IN
        last_call' = [op |-> "ensure_proper_class_name", code |-> code,
                      index |-> index, ret |-> r,
                      class_name |-> extract_class_name(r)]
    /\ UNCHANGED <<disk, PipelineVars>>

call_extract_payload ==
    /\ last_call = NoCall
    /\ \E blocks \in ResponseTexts :
        last_call' = [op |-> "extract_payload", blocks |-> blocks,
                      payload |-> extract_payload(blocks)]
    /\ UNCHANGED <<disk, PipelineVars>>

\* Two calls of generate_mock_script in one process, one after the other.
call_generate_mock_script ==
    /\ \/ last_call = NoCall
       \/ last_call.op = "generate_mock_script" /\ last_call.earlier = 0
    /\ \E prompt \in Prompts :
        LET k == IF last_call = NoCall THEN 0 ELSE 1 IN
        last_call' = [op |-> "generate_mock_script", prompt |-> prompt,
                      earlier |-> k,
                      ret |-> generate_mock_script_dict(prompt, k),
                      first |-> IF k = 0 THEN <<>> ELSE <<last_call>>]
    /\ UNCHANGED <<disk, PipelineVars>>

\* Two calls of generate_mock_code in one process, one after the other.
call_generate_mock_code ==
    /\ \/ last_call = NoCall
       \/ last_call.op = "generate_mock_code" /\ last_call.earlier = 0
    /\ \E scene \in MockCodeScenes, index \in MockCodeIndexes :
        LET k == IF last_call = NoCall THEN 0 ELSE 1 IN
        last_call' = [op |-> "generate_mock_code", scene |-> scene,
                      index |-> index, earlier |-> k,
                      ret |-> generate_mock_code_text(scene, index, k),
                      first |-> IF k = 0 THEN <<>> ELSE <<last_call>>]
    /\ UNCHANGED <<disk, PipelineVars>>

\* A call of generate_manim_code; what render_scene's recognition rule finds
\* in the returned text is recorded with it.
call_generate_manim_code ==
    /\ last_call = NoCall
    /\ \E scene \in MockCodeScenes, index \in Indexes,
          response \in CodeResponses :
        /\ ~GEMINI_API_KEY => response = <<"raise">>
        /\ LET r == generate_manim_code(scene, index, GEMINI_API_KEY,
                                        response) IN
           last_call' = [op |-> "generate_manim_code", scene |-> scene,
                         index |-> index, response |-> response,
                         raised |-> r.raised, ret |-> r.code,
                         source |-> r.source,
                         class_name |-> IF r.raised = "None"
                                        THEN extract_class_name(r.code)
                                        ELSE "None"]
    /\ UNCHANGED <<disk, PipelineVars>>

UnitInit ==
    /\ job_statuses = <<>>
    /\ fs = [j \in JobIds |-> {}]
    /\ pc = [j \in JobIds |-> "unborn"]
    /\ script = [j \in JobIds |-> NoScript]
    /\ scene_i = [j \in JobIds |-> 0]
    /\ exc = [j \in JobIds |-> "None"]
    /\ running = Idle
    /\ calls = [j \in JobIds |-> <<>>]
    /\ GEMINI_API_KEY \in BOOLEAN
    /\ ELEVENLABS_API_KEY \in BOOLEAN
    /\ faults = 0
    /\ disk \in InitialDisks
    /\ last_call = NoCall

UnitNext ==
    \/ call_combine_audio_video
    \/ call_concat_videos
    \/ call_render_scene
    \/ call_generate_speech
    \/ call_ensure_proper_class_name
    \/ call_extract_payload
    \/ call_generate_mock_script
    \/ call_generate_mock_code
    \/ call_generate_manim_code

UnitSpec == UnitInit /\ [][UnitNext]_vars

\* ================================================================== claims
ProgressValues == <<0, 5, 20, 40, 60, 80, 100>>
ProgressSet == {ProgressValues[n] : n \in 1..Len(ProgressValues)}

\* The value that follows p in the progress sequence (100 follows itself).
Following(p) ==
    LET n == CHOOSE m \in 1..Len(ProgressValues) : ProgressValues[m] = p
    IN  ProgressValues[IF n = Len(ProgressValues) THEN n ELSE n + 1]

Terminal == {"completed", "failed"}
AwaitPcs == {"script_await", "code_await", "render_await", "mock_video_await",
             "mux_await", "concat_await"}

\* C1: in every step, every record's progress is one of 0, 0.05, 0.2, 0.4,
\* 0.6, 0.8, 1.0, and a record that is still there after the step has the
\* same progress or the value that follows it in that sequence: the progress
\* never decreases and takes the values in that order.
C1_ProgressMonotone ==
    [][\A j \in JobIds :
          /\ Known(j) => job_statuses[j].progress \in ProgressSet
          /\ j \in DOMAIN job_statuses' =>
                job_statuses'[j].progress \in ProgressSet
          /\ Known(j) /\ j \in DOMAIN job_statuses' =>
                job_statuses'[j].progress \in
                    {job_statuses[j].progress,
                     Following(job_statuses[j].progress)}]_vars

\* C1 witness: one job went through the whole sequence while another one is
\* still being processed.
C1_Witness ==
    \E j, k \in JobIds :
        /\ Known(j) /\ job_statuses[j].progress = 100
        /\ Known(k) /\ job_statuses[k].status = "processing"
        /\ job_statuses[k].progress > 5

\* C2 (as a final result): when the background task of an accepted job that
\* was not deleted has ended, the record is completed with progress 1.0 or
\* failed with progress below 1.0.
C2_EndsTerminal ==
    \A j \in JobIds :
        pc[j] \in {"done", "crashed"} /\ Known(j) =>
            \/ job_statuses[j].status = "completed"
               /\ job_statuses[j].progress = 100
            \/ job_statuses[j].status = "failed"
               /\ job_statuses[j].progress < 100

\* C3: a step in which the task of j raises an error that no wrapper absorbs
\* leaves the record of j failed, with the fixed message, the description of
\* the exception in error, and progress, script and video_url as they were.
C3_ErrorsCaught ==
    [][\A j \in JobIds :
          exc[j] = "None" /\ exc'[j] # "None" /\ Known(j) =>
              /\ j \in DOMAIN job_statuses'
              /\ job_statuses'[j].status = "failed"
              /\ job_statuses'[j].message = "Video generation failed"
              /\ job_statuses'[j].error = exc'[j]
              /\ job_statuses'[j].progress = job_statuses[j].progress
              /\ job_statuses'[j].script = job_statuses[j].script
              /\ job_statuses'[j].video_url = job_statuses[j].video_url]_vars

\* C4: a record whose status is completed or failed keeps its status and its
\* progress in every step that leaves it in the registry.
C4_TerminalStable ==
    [][\A j \in JobIds :
          Known(j) /\ job_statuses[j].status \in Terminal
                   /\ j \in DOMAIN job_statuses' =>
              /\ job_statuses'[j].status = job_statuses[j].status
              /\ job_statuses'[j].progress = job_statuses[j].progress]_vars

\* C4 witness: a failed record and a completed record side by side, the
\* failed one having ended while the other job still had steps to take.
C4_Witness ==
    \E j, k \in JobIds :
        /\ Known(j) /\ job_statuses[j].status = "failed"
        /\ Known(k) /\ job_statuses[k].status = "completed"

\* C5: a record is completed exactly when its progress is 1.0 and exactly
\* when its video_url is set, to /jobs/<job_id>/output/final_video.mp4; in
\* every other status video_url is absent and the progress is below 1.0.
C5_CompletedIffUrl ==
    \A j \in JobIds :
        Known(j) =>
            LET r == job_statuses[j] IN
            /\ r.status = "completed" <=> r.progress = 100
            /\ r.status = "completed" <=>
                   r.video_url = <<"/jobs", j, "output/final_video.mp4">>
            /\ r.status # "completed" => r.video_url = <<>> /\ r.progress < 100

\* C5 witness: a completed record next to one that is not completed.
C5_Witness ==
    \E j, k \in JobIds :
        /\ Known(j) /\ job_statuses[j].status = "completed"
        /\ Known(k) /\ job_statuses[k].status \in {"processing", "failed"}

\* C6: the step that makes a record completed leaves output/final_video.mp4
\* in the workspace of that job.
C6_CompletedHasVideo ==
    [][\A j \in JobIds :
          /\ j \in DOMAIN job_statuses'
          /\ job_statuses'[j].status = "completed"
          /\ Known(j) /\ job_statuses[j].status # "completed"
          => final_path \in fs'[j]]_vars

\* C7: the error field of a record is present exactly when it is failed.
C7_ErrorIffFailed ==
    \A j \in JobIds :
        Known(j) =>
            (job_statuses[j].error # "None" <=> job_statuses[j].status = "failed")

\* C7 witness: a failed record carrying a description, next to a record of a
\* job in progress.
C7_Witness ==
    \E j, k \in JobIds :
        /\ Known(j) /\ job_statuses[j].status = "failed"
        /\ job_statuses[j].error = "OSError"
        /\ Known(k) /\ job_statuses[k].status = "processing"

\* C8: as long as the background task of an accepted job has not started,
\* its record is the initial one (queued, progress 0, "Job queued", no
\* script, no video_url, no error) and no stage has run for it: the workspace
\* holds nothing but the job directory and the task holds no script.
C8_QueuedUntilStart ==
    \A j \in JobIds :
        pc[j] = "queued" /\ Known(j) =>
            /\ job_statuses[j] =
                  [job_id |-> j, status |-> "queued", progress |-> 0,
                   message |-> "Job queued",
                   script |-> [mock |-> FALSE, scenes |-> 0, arrays |-> {}],
                   video_url |-> <<>>, error |-> "None"]
            /\ fs[j] = {job_dir}
            /\ script[j] = NoScript
            /\ exc[j] = "None"

\* C8 witness: a get can be served (the loop is idle) for a job whose task
\* has not started, while the job submitted before it is past its first stage.
C8_Witness ==
    \E j, k \in JobIds :
        /\ running = Idle
        /\ pc[j] = "queued" /\ get_job_status_response(j).status_code = 200
        /\ pc[k] \in AwaitPcs /\ Known(k) /\ job_statuses[k].progress >= 20

\* C9: for an id that is not in the registry, get and delete answer 404 and
\* a delete step changes neither the registry nor any workspace; a get step
\* changes no record.
C9_UnknownIdNotFound ==
    [][\A j \in JobIds :
          /\ ~Known(j) =>
                /\ get_job_status_response(j).status_code = 404
                /\ \A f \in RmtreeOutcome :
                      delete_job_result(j, f).status_code = 404
          /\ ~Known(j) /\ delete_job(j) => UNCHANGED <<job_statuses, fs>>
          /\ get_job_status(j) => UNCHANGED <<job_statuses, fs>>]_vars

\* C9 witness: requests can be served for an id that was never submitted and
\* for an id that was deleted and whose workspace the pipeline wrote again.
C9_Witness ==
    \E j, k \in JobIds :
        /\ running = Idle
        /\ pc[k] = "unborn"
        /\ pc[j] # "unborn" /\ ~Known(j) /\ fs[j] # {}

C11_DeleteRemovesRecord ==
    [][\A j \in JobIds :
          Known(j) /\ delete_job(j) => j \notin DOMAIN job_statuses']_vars

\* C12: whatever the external services and tools answer, a job is not failed
\* by them and no wrapper raises into the pipeline: as long as no local
\* filesystem operation has failed, the task of a job that is in the registry
\* has not raised and its record is not failed.
C12_NeverFailedByDependency ==
    \A j \in JobIds :
        faults = 0 /\ Known(j) =>
            /\ exc[j] = "None"
            /\ job_statuses[j].status # "failed"

\* C13: with neither credential configured, neither the text-generation
\* service nor the speech service is ever called (no task waits for one of
\* them), the script of every job is the mock template of exactly 4 scenes,
\* and a job whose task has ended, that is still in the registry and that met
\* no failure of a local filesystem operation, is completed with progress 1.0,
\* a non-empty video_url and that script in its record.
C13_MockScenario ==
    ~GEMINI_API_KEY /\ ~ELEVENLABS_API_KEY =>
        \A j \in JobIds :
            /\ pc[j] \notin {"script_await", "code_await", "speech_post"}
            /\ script[j] \in {[mock |-> FALSE, scenes |-> 0, arrays |-> {}],
                              [mock |-> TRUE, scenes |-> 4, arrays |-> {}]}
            /\ pc[j] \notin {"unborn", "queued", "generate_script", "crashed"} =>
                  script[j] = [mock |-> TRUE, scenes |-> 4, arrays |-> {}]
            /\ pc[j] \in {"done", "crashed"} /\ Known(j) /\ faults = 0 =>
                  /\ job_statuses[j].status = "completed"
                  /\ job_statuses[j].progress = 100
                  /\ job_statuses[j].video_url # <<>>
                  /\ job_statuses[j].script =
                        [mock |-> TRUE, scenes |-> 4, arrays |-> {}]

\* C13 witness: without credentials a job has ended completed, no local
\* filesystem operation having failed.
C13_Witness ==
    /\ ~GEMINI_API_KEY /\ ~ELEVENLABS_API_KEY /\ faults = 0
    /\ \E j \in JobIds :
          /\ pc[j] = "done" /\ Known(j)
          /\ job_statuses[j].status = "completed"
          /\ final_path \in fs[j]

\* C14: a parsed response that lacks title, description or scenes, whose
\* scenes list is empty, or that has a scene not carrying startTime, endTime,
\* narration and visualDescription is replaced by the mock script, so every
\* script generate_script has returned to a task has at least one scene and
\* every one of its scenes is an object that carries the four fields.
C14_ReturnedScriptsWellFormed ==
    \A j \in JobIds :
        script[j] # NoScript =>
            /\ script[j].scenes >= 1
            /\ script[j].arrays = {}
            /\ script[j] \in ScriptResults \cup {generate_mock_script}

\* C15: concat_videos with an empty list returns "" and leaves the disk as it
\* was (no output directory, no list file, no output file) without starting
\* ffmpeg; with exactly one path it starts no ffmpeg and writes no list file,
\* returns the output path whenever the copy goes through, and then the
\* output file has the content of that path; when the copy fails it returns
\* "" and the output file is as before.
C15_ConcatEmptyAndSingle ==
    last_call.op = "concat_videos" =>
        /\ Len(last_call.video_paths) = 0 =>
              /\ last_call.ret = ""
              /\ disk = last_call.before
              /\ ~last_call.tool_run
        /\ Len(last_call.video_paths) = 1 =>
              LET source == last_call.video_paths[1]
                  copied == /\ last_call.mk2 = "ok" /\ last_call.cp = "ok"
                            /\ Exists(last_call.before, source)
              IN
              /\ ~last_call.tool_run
              /\ disk.tmp = last_call.before.tmp
              /\ copied => /\ last_call.ret = Out
                           /\ disk.files[Out] = last_call.before.files[source]
                           /\ disk.files[Out] = Original(source)
              /\ ~copied => /\ last_call.ret = ""
                            /\ disk.files[Out] = last_call.before.files[Out]
              /\ \A p \in Inputs : disk.files[p] = last_call.before.files[p]

\* C15 witness: an empty list was handed over where no output directory
\* existed.
C15_Witness ==
    /\ last_call.op = "concat_videos"
    /\ Len(last_call.video_paths) = 0
    /\ ~last_call.before.out_dir
    /\ last_call.ret = ""

\* C16: combine_audio_video returns the output path for every outcome of
\* ffmpeg and of the copy, and when ffmpeg did not exit with 0 the output
\* file is a verbatim copy of the input video.
C16_MuxAlwaysReturnsOutput ==
    last_call.op = "combine_audio_video" =>
        /\ last_call.ret = Out
        /\ last_call.tool # "zero" =>
              /\ disk.files[Out] = Original(last_call.video)
              /\ disk.files[Out] = last_call.before.files[last_call.video]

\* C17: render_scene called with source text without a class statement whose
\* base is Scene returns the output path, does not start the engine, and the
\* output file is the placeholder clip whenever the placeholder could be
\* written (else it is as before).
C17_NoClassGivesPlaceholder ==
    last_call.op = "render_scene"
        /\ extract_class_name(last_call.code) = "None" =>
            LET m == last_call.m
                written == m.mk = "ok" /\ (m.tool = "zero" \/ m.w = "ok")
            IN
            /\ last_call.ret = Out
            /\ ~last_call.engine_run
            /\ written => disk.files[Out] \in {"black clip", "stub"}
            /\ ~written => disk.files[Out] = last_call.before.files[Out]

\* C17 witness: with the engine installed, a source text whose only class
\* statement has another base was given and the stub clip replaced a stale
\* output file.
C17_Witness ==
    /\ last_call.op = "render_scene"
    /\ last_call.manim = "installed"
    /\ Len(last_call.code) > 0
    /\ \E n \in 1..Len(last_call.code) : last_call.code[n].kind = "class"
    /\ extract_class_name(last_call.code) = "None"
    /\ last_call.before.files[Out] = "stale"
    /\ disk.files[Out] = "stub"

\* C18: when the engine is installed, the class name is found, the process
\* exits with 0 and an artifact exists, render_scene returns the output path
\* and the output file is the rendered artifact, not the placeholder.
C18_RenderedOnSuccess ==
    /\ last_call.op = "render_scene"
    /\ last_call.manim = "installed"
    /\ extract_class_name(last_call.code) # "None"
    /\ last_call.tw = "ok" /\ last_call.mk = "ok"
    /\ last_call.proc = "artifact"
    => /\ last_call.ret = Out
       /\ disk.files[Out] = "rendered"

\* C19: after render_scene has returned, no temporary directory it made is
\* left, on whatever path it returned.
C19_TempDirRemoved ==
    last_call.op = "render_scene" => disk.tmp = last_call.before.tmp

\* The stage a task position belongs to: 1 script, 2 code generation,
\* 3 speech synthesis, 4 rendering, 5 muxing, 6 concatenation; 0 outside the
\* pipeline (not started, ended).
StageOf(p) ==
    CASE p \in {"generate_script", "script_await"} -> 1
      [] p \in {"generate_manim_code", "code_await"} -> 2
      [] p \in {"generate_speech", "speech_post"} -> 3
      [] p \in {"render_scene", "render_await", "generate_mock_video",
                "mock_video_await"} -> 4
      [] p \in {"combine_audio_video", "mux_await"} -> 5
      [] p \in {"concat_videos", "concat_await"} -> 6
      [] OTHER -> 0

\* C20: in every step a job stays in its stage or enters the next one, the
\* first being the script stage; within a per-scene stage the scene index is
\* in range and stays or grows by one; the next stage is entered only from
\* the last scene and starts at scene 0; and an artifact of a stage (scene
\* program, audio, clip, muxed clip, final video) is written only by that
\* stage, for the scene the stage is at.
C20_StageOrder ==
    [][\A j \in JobIds :
          LET s == StageOf(pc[j])
              t == StageOf(pc'[j])
              new == fs'[j] \ fs[j]
          IN
          /\ s = 0 /\ t # 0 => t = 1 /\ pc[j] = "queued"
          /\ s # 0 /\ t # 0 => t \in {s, s + 1}
          /\ s \in 2..5 => scene_i[j] \in 0..(script[j].scenes - 1)
          /\ s # 0 /\ t = s => scene_i'[j] \in {scene_i[j], scene_i[j] + 1}
          /\ s # 0 /\ t = s + 1 =>
                /\ scene_i'[j] = 0
                /\ s \in 2..5 => scene_i[j] = script[j].scenes - 1
          /\ \A i \in 0..(MockScenes + MaxScenes) :
                /\ code_path(i) \in new => s = 2 /\ i = scene_i[j]
                /\ audio_path(i) \in new => s = 3 /\ i = scene_i[j]
                /\ video_path(i) \in new => s = 4 /\ i = scene_i[j]
                /\ combined_path(i) \in new => s = 5 /\ i = scene_i[j]
          /\ script_path \in new => s = 1
          /\ final_path \in new => s = 6]_vars

\* C20 witness: one job is muxing its third scene while the other one is
\* synthesizing the speech of its second scene.
C20_Witness ==
    \E j, k \in JobIds :
        /\ StageOf(pc[j]) = 5 /\ scene_i[j] = 2
        /\ combined_path(1) \in fs[j]
        /\ StageOf(pc[k]) = 3 /\ scene_i[k] = 1
        /\ audio_path(0) \in fs[k]

\* C21: a call of generate_speech returns output_path whatever happens; the
\* request is sent only with the credential set; with a 200 response whose
\* body could be written, output_path holds the response body; in every other
\* case (no credential, another status, an exception of the request, of the
\* text handling or of the write) generate_mock_audio ran, and output_path
\* holds the placeholder bytes whenever its makedirs and write went through.
C21_SpeechNeverFails ==
    last_call.op = "generate_speech" =>
        LET c == last_call
            served == /\ ELEVENLABS_API_KEY /\ c.text = "str"
                      /\ c.resp = "200" /\ c.mk = "ok" /\ c.w = "ok"
        IN
        /\ c.ret = Out
        /\ c.posted <=> (ELEVENLABS_API_KEY /\ c.text = "str")
        /\ served => disk.files[Out] = "response body"
        /\ ~served /\ c.m = [mk |-> "ok", w |-> "ok"] =>
              disk.files[Out] = "mock audio"
        /\ disk.files[Out] \in
              {"response body", "mock audio", c.before.files[Out]}
        /\ \A p \in Inputs : disk.files[p] = c.before.files[p]

\* C21 witness: the endpoint answered with a non-success status and the
\* placeholder replaced an older file at output_path.
C21_Witness ==
    /\ last_call.op = "generate_speech"
    /\ last_call.resp = "other"
    /\ last_call.before.files[Out] = "stale"
    /\ disk.files[Out] = "mock audio"
    /\ last_call.ret = Out

\* A step of job j's own pipeline execution: its task moves.
OwnStep(j) == <<pc[j], scene_i[j]>> # <<pc'[j], scene_i'[j]>>

\* The step changes or removes j's record, or changes j's workspace.
Touched(j) ==
    \/ fs'[j] # fs[j]
    \/ (j \in DOMAIN job_statuses) # (j \in DOMAIN job_statuses')
    \/ /\ j \in DOMAIN job_statuses /\ j \in DOMAIN job_statuses'
       /\ job_statuses'[j] # job_statuses[j]

\* C22 (first half): a step of one job's pipeline leaves the record and the
\* workspace of every other job as they are.
C22_NoCrossJobWrites ==
    [][\A j, k \in JobIds : j # k /\ OwnStep(k) => ~Touched(j)]_vars

\* C22: a step of one job's pipeline leaves every other job alone, and while
\* a job is queued or processing only steps of its own pipeline change or
\* remove its record or change its workspace.
C22_SingleWriter ==
    [][\A j \in JobIds :
          /\ \A k \in JobIds \ {j} : OwnStep(k) => ~Touched(j)
          /\ (Known(j) /\ job_statuses[j].status \in {"queued", "processing"}
                /\ Touched(j)) => OwnStep(j)]_vars

\* How often job j's task called op with the scene index or path list a.
Count(j, op, a) ==
    Cardinality({n \in 1..Len(calls[j]) :
                    calls[j][n].op = op /\ calls[j][n].args[1] = a})

\* How often job j's task called op (an operation without a scene).
CountOp(j, op) ==
    Cardinality({n \in 1..Len(calls[j]) : calls[j][n].op = op})

SceneOps == {"generate_manim_code", "generate_speech", "render_scene"}
SceneIndexes == 0..(MockScenes + MaxScenes)

\* Nothing is started or called twice: one execution per id, generate_script
\* and concat_videos at most once, each per-scene operation at most once per
\* scene, and a job that failed has an ended task.
AtMostOnce(j) ==
    /\ CountOp(j, "generate_video_task") <= 1
    /\ CountOp(j, "generate_script") <= 1
    /\ CountOp(j, "concat_videos") <= 1
    /\ \A i \in SceneIndexes :
          /\ \A op \in SceneOps : Count(j, op, i) <= 1
          /\ Count(j, "combine_audio_video", video_path(i)) <= 1
    /\ CountOp(j, "combine_audio_video") <= script[j].scenes
    /\ calls[j] # <<>> => calls[j][1].op = "generate_video_task"
    /\ pc[j] \in {"unborn", "queued"} <=> calls[j] = <<>>
    /\ Known(j) /\ job_statuses[j].status = "failed" => pc[j] = "done"

\* The execution of job j has ended.
Ended(j) == pc[j] \in {"done", "crashed"}

\* The execution ended in the mkdir calls that stand before the try
\* statement (main.py 97-98), before anything was called.
EndedInSetup(j) == pc[j] = "crashed" /\ exc[j] = "OSError"

\* C23 as stated: nothing is started or called twice, and an execution that
\* has ended called generate_script exactly once.
C23_ExactlyOnce ==
    \A j \in JobIds :
        /\ AtMostOnce(j)
        /\ Ended(j) => CountOp(j, "generate_script") = 1

\* C23 amended: nothing is started or called twice, a failed job is never
\* started again, and an execution that has ended called generate_script
\* exactly once unless it ended while creating the workspace directories.
C23_NoRetry ==
    \A j \in JobIds :
        /\ AtMostOnce(j)
        /\ Ended(j) /\ ~EndedInSetup(j) => CountOp(j, "generate_script") = 1
        /\ Ended(j) /\ EndedInSetup(j) => CountOp(j, "generate_script") = 0

\* C23 witness: one job has failed after its script and some scene code were
\* asked for, the other one has run every stage of a four-scene script, and
\* both are over.
C23_Witness ==
    \E j, k \in JobIds :
        /\ Known(j) /\ job_statuses[j].status = "failed" /\ pc[j] = "done"
        /\ Len(calls[j]) >= 3
        /\ Known(k) /\ job_statuses[k].status = "completed"
        /\ Len(calls[k]) = 3 + 4 * MockScenes

\* The positions at which a task is inside an external invocation: the
\* generative call, the speech request, manim, ffmpeg.
ExternalPcs == AwaitPcs \cup {"speech_post"}

\* A submit, a get and a delete can be served in this state.
RegistryServes ==
    /\ \A k \in JobIds : ENABLED get_job_status(k)
    /\ \A k \in JobIds : ENABLED delete_job(k)
    /\ (\E k \in JobIds : pc[k] = "unborn") =>
          \E k \in JobIds : ENABLED generate_video(k)

\* C24: whenever some job's task is inside an external invocation and no
\* other task is in the middle of a step, the registry can serve a submit, a
\* get and a delete at once, before the invocation returns.
C24_RegistryNeverBlocked ==
    \A j \in JobIds :
        pc[j] \in ExternalPcs /\ running \in {Idle, j} => RegistryServes

\* C24 (the invocations that are awaited): while a task waits for the
\* generative call, manim or ffmpeg and no task is in the middle of a step,
\* the registry can serve.
C24_AwaitsYield ==
    \A j \in JobIds :
        pc[j] \in AwaitPcs /\ running \in {Idle, j} => RegistryServes

\* C25: whenever render_scene runs manim, the flag on the command line is
\* -ql for "low", -qm for "medium", -qh for "high", three different flags,
\* and -qm for every other quality string.
C25_QualityFlag ==
    last_call.op = "render_scene" /\ last_call.engine_run =>
        LET q == last_call.quality
            flag == last_call.flag
        IN
        /\ q = "low" => flag = "-ql"
        /\ q = "medium" => flag = "-qm"
        /\ q = "high" => flag = "-qh"
        /\ q \notin {"low", "medium", "high"} => flag = "-qm"
        /\ Cardinality({quality_flag(t) : t \in {"low", "medium", "high"}}) = 3

\* C25 witness: manim was run for a request with an unknown tier and got the
\* medium flag.
C25_Witness ==
    /\ last_call.op = "render_scene" /\ last_call.engine_run
    /\ last_call.quality = "ultra"
    /\ last_call.flag = "-qm"

\* C26: after ensure_proper_class_name(code, i) the class name the renderer
\* extracts embeds i+1; no program of another scene index can end with the
\* same extracted name; and a text without a class statement that the
\* recognition rule accepts becomes the fallback program with class Scene<i+1>.
C26_ClassNamePerScene ==
    last_call.op = "ensure_proper_class_name" =>
        LET c == last_call IN
        /\ c.class_name # "None"
        /\ Embeds(c.class_name, c.index + 1)
        /\ \A k \in Indexes \ {c.index} : c.class_name \notin ResultNames[k]
        /\ extract_class_name(c.code) = "None" =>
              /\ c.ret = FallbackProgram(c.index)
              /\ c.class_name = SceneName(c.index + 1)

\* C26 (exact declarations): when the first class statement of the program is
\* written exactly as `class X(Scene)`, the extracted name embeds i+1.
C26_ExactDeclarations ==
    last_call.op = "ensure_proper_class_name" =>
        LET c == last_call
            first == CHOOSE n \in 1..Len(c.code) :
                        /\ IsSceneClass(c.code[n])
                        /\ \A m \in 1..(n - 1) : ~IsSceneClass(c.code[m])
        IN
        /\ extract_class_name(c.code) = "None" =>
              c.ret = FallbackProgram(c.index)
        /\ (extract_class_name(c.code) # "None" /\ ~c.code[first].spaced) =>
              Embeds(c.class_name, c.index + 1)

\* C27: the payload taken from a response is the content of its first fenced
\* block, whatever the labels of its blocks, and the whole text when it has
\* no block.
C27_FirstBlockIsPayload ==
    last_call.op = "extract_payload" =>
        last_call.payload =
            IF Len(last_call.blocks) = 0 THEN RawText ELSE BlockContent(1)

\* C27 (what the patterns give): the payload is the content of the first
\* block that carries the wrapper's label when there is one; without such a
\* block it is the content of the first block when that block has no label,
\* and the whole text when there is no block or a single labeled one.
C27_LabeledBlockFirst ==
    last_call.op = "extract_payload" =>
        LET b == last_call.blocks
            labeled == {n \in 1..Len(b) : b[n] = "lang"}
        IN
        /\ labeled # {} =>
              /\ last_call.payload.kind = "block"
              /\ last_call.payload.n \in labeled
              /\ \A m \in labeled : last_call.payload.n <= m
        /\ Len(b) = 0 => last_call.payload = RawText
        /\ labeled = {} /\ Len(b) >= 1 /\ b[1] = "none" =>
              last_call.payload = BlockContent(1)
        /\ b = <<"other">> => last_call.payload = RawText

\* C28: a call of concat_videos with two or more paths returns output_path
\* with the concatenation when ffmpeg exits with 0; when ffmpeg exits
\* non-zero or cannot be run, and the first clip exists and can be copied,
\* output_path holds a copy of the first clip only (not the concatenation,
\* not a later clip) and output_path is returned; the call never raises, it
\* returns output_path or "", and it changes no input.
C28_ConcatFallsBackToFirst ==
    (last_call.op = "concat_videos" /\ Len(last_call.video_paths) >= 2) =>
        LET c == last_call
            first == c.video_paths[1]
            copied == /\ Exists(c.before, first) /\ c.cp = "ok"
                      /\ c.mk2 = "ok"
        IN
        /\ c.ret \in {Out, ""}
        /\ c.tool = "zero" =>
              /\ c.ret = Out /\ c.tool_run
              /\ disk.files[Out] = "concatenated"
        /\ c.tool # "zero" /\ copied =>
              /\ c.ret = Out
              /\ disk.files[Out] = Original(first)
              /\ \A n \in 2..Len(c.video_paths) :
                    c.video_paths[n] # first =>
                       disk.files[Out] # Original(c.video_paths[n])
        /\ c.tool # "zero" /\ ~copied =>
              /\ c.ret = ""
              /\ disk.files[Out] = c.before.files[Out]
        /\ \A p \in Inputs : disk.files[p] = c.before.files[p]

\* C28 witness: ffmpeg exited non-zero on two different clips and the output
\* is the first of them.
C28_Witness ==
    /\ last_call.op = "concat_videos"
    /\ last_call.video_paths = <<"in/a.mp4", "in/b.mp4">>
    /\ last_call.tool = "nonzero"
    /\ last_call.ret = Out
    /\ disk.files[Out] = "clip A"

\* C28 (the job): whatever concat_videos did, the step that ends the
\* concatenation stage of a job whose record exists sets the job completed
\* with its video_url; the final video exists then only if the first muxed
\* clip or every muxed clip existed.
C28_JobStillCompletes ==
    [][\A j \in JobIds :
          (pc[j] \in {"concat_videos", "concat_await"} /\ pc'[j] = "done") =>
              /\ job_statuses'[j].status = "completed"
              /\ job_statuses'[j].video_url = VideoUrl(j)
              /\ final_path \in fs'[j] \ fs[j] =>
                    combined_path(0) \in fs[j]]_vars

\* The entries of job j's call log that call op, in order.
CallsOf(j, op) == SelectSeq(calls[j], LAMBDA c : c.op = op)

PerSceneFiles == {"script/scene_N.py", "audio/scene_N.mp3",
                  "video/scene_N.mp4", "output/combined_scene_N.mp4"}

\* C29: for every job with an N-scene script, the n-th call of each
\* per-scene stage is made for scene index n-1 and with the file of that
\* stage numbered n: audio/scene_<n>.mp3 for the speech, video/scene_<n>.mp4
\* for the render, and video/scene_<n>.mp4 with audio/scene_<n>.mp3 into
\* output/combined_scene_<n>.mp4 for the mux; no stage is called more than N
\* times; concat_videos gets the N muxed clips in ascending order and
\* output/final_video.mp4; and every per-scene file in the workspace has a
\* number in 1..N.
C29_NamingByIndex ==
    \A j \in JobIds :
        LET N == script[j].scenes
            code == CallsOf(j, "generate_manim_code")
            speech == CallsOf(j, "generate_speech")
            render == CallsOf(j, "render_scene")
            mux == CallsOf(j, "combine_audio_video")
            concat == CallsOf(j, "concat_videos")
        IN
        /\ Len(code) <= N /\ Len(speech) <= N
        /\ Len(render) <= N /\ Len(mux) <= N
        /\ \A n \in 1..Len(code) : code[n].args = <<n - 1>>
        /\ \A n \in 1..Len(speech) :
              speech[n].args = <<n - 1, <<"audio/scene_N.mp3", n>>>>
        /\ \A n \in 1..Len(render) :
              render[n].args = <<n - 1, <<"video/scene_N.mp4", n>>>>
        /\ \A n \in 1..Len(mux) :
              mux[n].args = <<<<"video/scene_N.mp4", n>>,
                              <<"audio/scene_N.mp3", n>>,
                              <<"output/combined_scene_N.mp4", n>>>>
        /\ \A n \in 1..Len(concat) :
              /\ Len(mux) = N
              /\ Len(concat[n].args[1]) = N
              /\ \A m \in 1..N :
                    concat[n].args[1][m] = <<"output/combined_scene_N.mp4", m>>
              /\ concat[n].args[2] = <<"output/final_video.mp4", 0>>
        /\ \A p \in fs[j] : p[1] \in PerSceneFiles => p[2] \in 1..N
        /\ \A n \in 1..N :
              /\ <<"script/scene_N.py", n>> \in fs[j] => Len(code) >= n
              /\ <<"audio/scene_N.mp3", n>> \in fs[j] => Len(speech) >= n
              /\ <<"video/scene_N.mp4", n>> \in fs[j] => Len(render) >= n
              /\ <<"output/combined_scene_N.mp4", n>> \in fs[j] => Len(mux) >= n

\* C29 witness: a job with the four-scene script has called concat_videos
\* with its four muxed clips, all of which exist together with the four
\* scene programs, audio files and rendered clips.
C29_Witness ==
    \E j \in JobIds :
        /\ script[j].scenes = 4
        /\ Len(CallsOf(j, "concat_videos")) = 1
        /\ Len(CallsOf(j, "concat_videos")[1].args[1]) = 4
        /\ \A n \in 1..4 :
              {<<"script/scene_N.py", n>>, <<"audio/scene_N.mp3", n>>,
               <<"video/scene_N.mp4", n>>,
               <<"output/combined_scene_N.mp4", n>>} \subseteq fs[j]

\* Job j's task has left stage s behind: it is in a later stage or has ended.
Past(j, s) == pc[j] \in {"done", "crashed"} \/ StageOf(pc[j]) > s

\* C30: in every state in which a get can be served, for every record: the
\* script is present exactly when progress >= 0.2; progress >= 0.4 means
\* generate_manim_code was called for each of the N scenes and the task has
\* left that stage; likewise >= 0.6 for generate_speech, >= 0.8 for
\* render_scene; and progress 1.0 means all N muxes and the concatenation
\* were called and the task has ended.
C30_ProgressIsFloor ==
    \A j \in JobIds :
        (running = Idle /\ Known(j)) =>
            LET r == job_statuses[j]
                N == r.script.scenes
                n(op) == Len(CallsOf(j, op))
            IN
            /\ r.script # NoScript <=> r.progress >= 20
            /\ r.progress >= 20 => r.script = script[j] /\ N >= 1 /\ Past(j, 1)
            /\ r.progress >= 40 => n("generate_manim_code") = N /\ Past(j, 2)
            /\ r.progress >= 60 => n("generate_speech") = N /\ Past(j, 3)
            /\ r.progress >= 80 => n("render_scene") = N /\ Past(j, 4)
            /\ r.progress = 100 =>
                  /\ n("combine_audio_video") = N
                  /\ n("concat_videos") = 1
                  /\ pc[j] = "done"

\* C30 witness: a get can be served while a job with the four-scene script
\* stands at 0.8 and waits for a mux.
C30_Witness ==
    \E j \in JobIds :
        /\ running = Idle /\ Known(j)
        /\ job_statuses[j].progress = 80
        /\ job_statuses[j].script.scenes = 4
        /\ pc[j] = "mux_await"
        /\ Len(CallsOf(j, "render_scene")) = 4

\* The template generate_mock_code uses for an index.
TemplateOf(index) ==
    CASE index = 0 -> "title"
      [] index = 1 -> "equation"
      [] index = 2 -> "visual example"
      [] OTHER -> "summary"

Deleted(j) == pc[j] # "unborn" /\ ~Known(j)

\* C32: an id that was drawn is never drawn again, and once the record of a
\* submitted id has been deleted no step brings a record for it back,
\* whether its task had not started, was running or had ended; a get and a
\* delete for it answer not-found before and after every step.
C32_DeletedStaysDeleted ==
    [][\A j \in JobIds :
          /\ pc[j] # "unborn" => pc'[j] # "unborn"
          /\ Deleted(j) =>
                /\ j \notin DOMAIN job_statuses'
                /\ get_job_status_response(j).status_code = 404
                /\ \A f \in RmtreeOutcome :
                      /\ delete_job_result(j, f).status_code = 404
                      /\ delete_job_result(j, f).job_statuses = job_statuses]_vars

\* C32 witness: one job was deleted before its task started and the other
\* one while its task was running; both tasks have ended since and neither
\* id is known.
C32_Witness ==
    \E j, k \in JobIds :
        /\ Deleted(j) /\ pc[j] = "crashed" /\ exc[j] = "OSError"
        /\ calls[j] = <<[op |-> "generate_video_task", args |-> <<j>>]>>
        /\ Deleted(k) /\ pc[k] = "crashed" /\ exc[k] = "KeyError"
        /\ Len(calls[k]) >= 2

\* C33: once the record of a submitted id has been deleted, nothing exists
\* under jobs/<id>: no directory and no file.
C33_WorkspaceStaysDeleted ==
    \A j \in JobIds : Deleted(j) => fs[j] = {}

\* C33 (a task that has not started): a job deleted while it was queued
\* never gets a workspace again.
C33_QueuedDeleteLeavesNothing ==
    \A j \in JobIds :
        (Deleted(j) /\ (pc[j] = "queued" \/ EndedInSetup(j))) => fs[j] = {}

\* C34: no task ends with an exception that left generate_video_task.
C34_NoUncaughtException ==
    \A j \in JobIds : pc[j] # "crashed"

\* C34 (where the exceptions come from): a task that ended with an uncaught
\* exception ended in the mkdir calls before the try statement, or in the
\* failure handler after its record had been deleted.
C34_UncaughtOnlyTwoWays ==
    \A j \in JobIds :
        pc[j] = "crashed" =>
            \/ exc[j] = "OSError" /\ (Deleted(j) \/ faults > 0)
            \/ exc[j] = "KeyError" /\ Deleted(j)

\* C35: a task that has got its script from generate_script holds a script
\* with at least one scene, and so does the record; whenever concat_videos
\* was called, every per-scene stage had been called at least once and the
\* list handed over has as many entries as the script has scenes, at least
\* one.
C35_ConcatNeverEmpty ==
    \A j \in JobIds :
        /\ StageOf(pc[j]) >= 2 => script[j].scenes >= 1
        /\ (Known(j) /\ job_statuses[j].progress >= 20) =>
              job_statuses[j].script.scenes >= 1
        /\ \A n \in 1..Len(CallsOf(j, "concat_videos")) :
              /\ Len(CallsOf(j, "concat_videos")[n].args[1]) >= 1
              /\ Len(CallsOf(j, "concat_videos")[n].args[1]) = script[j].scenes
              /\ \A op \in SceneOps \cup {"combine_audio_video"} :
                    Len(CallsOf(j, op)) >= 1

\* C35 witness: a validated generative script with a single scene has reached
\* the concatenation, which got a list of one clip.
C35_Witness ==
    \E j \in JobIds :
        /\ ~script[j].mock /\ script[j].scenes = 1
        /\ Len(CallsOf(j, "concat_videos")) = 1
        /\ CallsOf(j, "concat_videos")[1].args[1] = <<combined_path(0)>>

\* The default outcomes inside generate_mock_video.
AllOk == [mk |-> "ok", tool |-> "zero", w |-> "ok"]

\* C36: every program text generate_manim_code returns, be it the mock
\* program, the post-processed generative text or the fallback program, has
\* a class statement that extract_class_name finds, so render_scene, given
\* that text with manim installed and no failure, starts manim instead of
\* going to the placeholder.
C36_ReturnedProgramHasClass ==
    (last_call.op = "generate_manim_code" /\ last_call.raised = "None") =>
        /\ last_call.class_name # "None"
        /\ extract_class_name(last_call.ret) = last_call.class_name
        /\ last_call.source \in {"mock", "fallback"} =>
              last_call.class_name = SceneName(last_call.index + 1)
        /\ render_scene(disk, last_call.ret, "installed", "ok", "ok",
                        "artifact", AllOk).engine_run

\* C36 witness: the generative text had no class statement and the returned
\* program is the fallback program, in which the renderer finds its class.
C36_Witness ==
    /\ last_call.op = "generate_manim_code"
    /\ last_call.source = "fallback"
    /\ last_call.index = 1
    /\ last_call.ret = FallbackProgram(1)
    /\ last_call.class_name = "Scene2"
====
